---- MODULE Spec2Model ----
(***************************************************************************)
(* Model of the Tdarr plugin "Advanced Audio Tracks Transcode / Rename /   *)
(* Remove" (src/Plugins/advanced_audio_tracks_transcode_rename_remove.js). *)
(*                                                                         *)
(* JavaScript values are tagged records, so that typeof, truthiness and    *)
(* strict equality are computed as the interpreter computes them:          *)
(*   string     [t |-> "string",  s |-> <<chars>>]   (one char per element)*)
(*   number     [t |-> "number",  n |-> Int]  or  [t |-> "number", nan]    *)
(*   boolean    [t |-> "boolean", b |-> BOOLEAN]                           *)
(*   null       [t |-> "null"]        undefined  [t |-> "undefined"]       *)
(*   array      [t |-> "array",   a |-> <<values>>]                        *)
(*   object     [t |-> "object",  o |-> <<[k, v], ...>>] (insertion order) *)
(***************************************************************************)
EXTENDS Integers, Sequences, FiniteSets, TLC

\* ------------------------------------------------------------------ values

Str(s) == [t |-> "string", s |-> s]
Num(n) == [t |-> "number", n |-> n]
NaN == [t |-> "number", nan |-> TRUE]
Bool(b) == [t |-> "boolean", b |-> b]
Null == [t |-> "null"]
Undefined == [t |-> "undefined"]
Arr(a) == [t |-> "array", a |-> a]
Obj(o) == [t |-> "object", o |-> o]
E(k, v) == [k |-> k, v |-> v]

IsNaN(v) == v.t = "number" /\ "nan" \in DOMAIN v

\* typeof v
TypeOf(v) ==
    IF v.t \in {"null", "array", "object"} THEN "object" ELSE v.t

\* Array.isArray(v)
IsArray(v) == v.t = "array"

\* o.hasOwnProperty(k), for an object o (a string key of an array or of a
\* string is never one of the property names the plugin asks for)
HasOwn(o, k) == o.t = "object" /\ \E i \in 1..Len(o.o) : o.o[i].k = k

\* o.k : undefined when the property is missing or o is a primitive
Prop(o, k) ==
    IF HasOwn(o, k)
    THEN o.o[CHOOSE i \in 1..Len(o.o) : o.o[i].k = k].v
    ELSE Undefined

\* the truthiness test of if(v), v ? a : b, !v, v && w
Truthy(v) ==
    CASE v.t = "undefined" -> FALSE
      [] v.t = "null" -> FALSE
      [] v.t = "boolean" -> v.b
      [] v.t = "number" -> ~IsNaN(v) /\ v.n # 0
      [] v.t = "string" -> Len(v.s) > 0
      [] OTHER -> TRUE

\* a === b : same type and same value; NaN equals nothing; two objects or
\* arrays are equal only when they are the same reference, which two values
\* read from different documents never are
StrictEq(a, b) ==
    CASE a.t # b.t -> FALSE
      [] a.t = "string" -> a.s = b.s
      [] a.t = "number" -> ~IsNaN(a) /\ ~IsNaN(b) /\ a.n = b.n
      [] a.t = "boolean" -> a.b = b.b
      [] a.t \in {"null", "undefined"} -> TRUE
      [] OTHER -> FALSE

\* ----------------------------------------------------------------- strings

Digits == <<"0", "1", "2", "3", "4", "5", "6", "7", "8", "9">>
UpperCase == <<"A", "B", "C", "D", "E", "F", "G", "H", "I", "J", "K", "L", "M",
               "N", "O", "P", "Q", "R", "S", "T", "U", "V", "W", "X", "Y", "Z">>
LowerCase == <<"a", "b", "c", "d", "e", "f", "g", "h", "i", "j", "k", "l", "m",
               "n", "o", "p", "q", "r", "s", "t", "u", "v", "w", "x", "y", "z">>
WhiteSpace == {" ", "\t", "\n", "\r"}

IsDigit(c) == \E d \in 1..10 : Digits[d] = c
DigitVal(c) == (CHOOSE d \in 1..10 : Digits[d] = c) - 1

ToLowerChar(c) ==
    IF \E i \in 1..26 : UpperCase[i] = c
    THEN LowerCase[CHOOSE i \in 1..26 : UpperCase[i] = c]
    ELSE c
ToUpperChar(c) ==
    IF \E i \in 1..26 : LowerCase[i] = c
    THEN UpperCase[CHOOSE i \in 1..26 : LowerCase[i] = c]
    ELSE c

\* s.toLowerCase(), s.toUpperCase() on the characters of a string
toLowerCase(s) == [i \in 1..Len(s) |-> ToLowerChar(s[i])]
toUpperCase(s) == [i \in 1..Len(s) |-> ToUpperChar(s[i])]

\* s.startsWith(p)
startsWith(s, p) == Len(s) >= Len(p) /\ SubSeq(s, 1, Len(p)) = p

\* s.slice(k) for 0 <= k
slice(s, k) == SubSeq(s, k + 1, Len(s))

\* the decimal digits of a natural number, as Number.prototype.toString gives
RECURSIVE NatToString(_)
NatToString(n) ==
    IF n < 10 THEN <<Digits[n + 1]>>
    ELSE NatToString(n \div 10) \o <<Digits[(n % 10) + 1]>>

\* String(n) for an integer n
IntToString(n) == IF n < 0 THEN <<"-">> \o NatToString(-n) ELSE NatToString(n)

\* the position of the first character of s, from i on, that is not white space
RECURSIVE SkipWhiteSpace(_, _)
SkipWhiteSpace(s, i) ==
    IF i <= Len(s) /\ s[i] \in WhiteSpace THEN SkipWhiteSpace(s, i + 1) ELSE i

\* the value of the longest run of decimal digits of s that starts at i
RECURSIVE ParseDigits(_, _, _)
ParseDigits(s, i, acc) ==
    IF i <= Len(s) /\ IsDigit(s[i])
    THEN ParseDigits(s, i + 1, acc * 10 + DigitVal(s[i]))
    ELSE acc

\* parseInt(s) of a string s (radix 10; the conditions of the bounded rule
\* sets carry no 0x prefix): leading white space, an optional sign, then the
\* longest prefix of digits; NaN when there is no digit
parseInt(s) ==
    LET i == SkipWhiteSpace(s, 1)
        signed == i <= Len(s) /\ s[i] \in {"+", "-"}
        j == IF signed THEN i + 1 ELSE i
    IN  IF j <= Len(s) /\ IsDigit(s[j])
        THEN Num((IF signed /\ s[i] = "-" THEN -1 ELSE 1) * ParseDigits(s, j, 0))
        ELSE NaN

\* the position after the last character of s that is not white space
RECURSIVE TrimEnd(_, _)
TrimEnd(s, j) ==
    IF j >= 1 /\ s[j] \in WhiteSpace THEN TrimEnd(s, j - 1) ELSE j

\* ToNumber(v), the coercion of the relational operators: a string converts
\* only as a whole (a decimal integer, white space trimmed; "" is 0)
ToNumber(v) ==
    CASE v.t = "number" -> v
      [] v.t = "undefined" -> NaN
      [] v.t = "null" -> Num(0)
      [] v.t = "boolean" -> Num(IF v.b THEN 1 ELSE 0)
      [] v.t = "string" ->
            LET i == SkipWhiteSpace(v.s, 1)
                j == TrimEnd(v.s, Len(v.s))
                body == SubSeq(v.s, i, j)
                signed == Len(body) > 0 /\ body[1] \in {"+", "-"}
                digs == IF signed THEN Tail(body) ELSE body
            IN  IF Len(body) = 0 THEN Num(0)
                ELSE IF Len(digs) > 0 /\ \A x \in 1..Len(digs) : IsDigit(digs[x])
                THEN Num((IF signed /\ body[1] = "-" THEN -1 ELSE 1)
                             * ParseDigits(digs, 1, 0))
                ELSE NaN
      [] OTHER -> NaN

\* a <= b, a >= b, a < b, a > b where b is a number: both sides go through
\* ToNumber and any comparison with NaN is false
JsLe(a, b) ==
    LET x == ToNumber(a) y == ToNumber(b) IN ~IsNaN(x) /\ ~IsNaN(y) /\ x.n <= y.n
JsGe(a, b) ==
    LET x == ToNumber(a) y == ToNumber(b) IN ~IsNaN(x) /\ ~IsNaN(y) /\ x.n >= y.n
JsLt(a, b) ==
    LET x == ToNumber(a) y == ToNumber(b) IN ~IsNaN(x) /\ ~IsNaN(y) /\ x.n < y.n
JsGt(a, b) ==
    LET x == ToNumber(a) y == ToNumber(b) IN ~IsNaN(x) /\ ~IsNaN(y) /\ x.n > y.n

\* arr.includes(v) on the elements of an array (SameValueZero, which differs
\* from === only on NaN, and a codec name or a language is never NaN)
includes(a, v) == \E i \in 1..Len(a) : StrictEq(a[i], v)

\* ----------------------------------------------------------------- matcher

\* a function that would look for '<' and '>' before '<=' and '>='
matchesIntCondition_ShortPrefixFirst(value, condition) ==
    LET c == condition.s
    IN  IF startsWith(c, <<"<">>) THEN JsLt(value, parseInt(slice(c, 1)))
        ELSE IF startsWith(c, <<">">>) THEN JsGt(value, parseInt(slice(c, 1)))
        ELSE IF startsWith(c, <<"<", "=">>) THEN JsLe(value, parseInt(slice(c, 2)))
        ELSE IF startsWith(c, <<">", "=">>) THEN JsGe(value, parseInt(slice(c, 2)))
        ELSE StrictEq(value, parseInt(c))

\* matchesIntCondition(value, condition), condition a string
matchesIntCondition(value, condition) ==
    LET c == condition.s
    IN  IF startsWith(c, <<"<", "=">>) THEN JsLe(value, parseInt(slice(c, 2)))
        ELSE IF startsWith(c, <<">", "=">>) THEN JsGe(value, parseInt(slice(c, 2)))
        ELSE IF startsWith(c, <<"<">>) THEN JsLt(value, parseInt(slice(c, 1)))
        ELSE IF startsWith(c, <<">">>) THEN JsGt(value, parseInt(slice(c, 1)))
        ELSE StrictEq(value, parseInt(c))

\* the test of match.codecs, lines 280-281: a list is searched for the
\* lower-cased codec name of the track; a string other than '*' is '!codec'
\* and excludes the codec named after its first character
codecsMatch(trackData, matchRule) ==
    LET codecs == Prop(matchRule, "codecs")
        name == Str(toLowerCase(Prop(trackData, "codec_name").s))
    IN  ~ \/ (IsArray(codecs) /\ ~includes(codecs.a, name))
          \/ (/\ ~IsArray(codecs)
              /\ ~StrictEq(codecs, Str(<<"*">>))
              /\ StrictEq(name, Str(toLowerCase(slice(codecs.s, 1)))))

\* Array.isArray(x) ? x : [x]
AsList(x) == IF IsArray(x) THEN x.a ELSE <<x>>

\* the test of match.channels, lines 283-287: every listed condition holds
channelsMatch(trackData, matchRule) ==
    LET channels == Prop(matchRule, "channels")
    IN  Truthy(channels) =>
            \A i \in 1..Len(AsList(channels)) :
                matchesIntCondition(Prop(trackData, "channels"), AsList(channels)[i])

\* the test of match.bitrate, lines 289-293
bitrateMatch(trackData, matchRule) ==
    LET bitrate == Prop(matchRule, "bitrate")
    IN  Truthy(bitrate) =>
            \A i \in 1..Len(AsList(bitrate)) :
                matchesIntCondition(Prop(trackData, "bit_rate"), AsList(bitrate)[i])

\* trackData.tags && trackData.tags.language ? trackData.tags.language : 'und'
TrackLanguage(trackData) ==
    LET tags == Prop(trackData, "tags")
    IN  IF Truthy(tags) /\ Truthy(Prop(tags, "language"))
        THEN Prop(tags, "language") ELSE Str(<<"u", "n", "d">>)

\* (trackData.tags && trackData.tags.title ? trackData.tags.title : '')
TrackTitle(trackData) ==
    LET tags == Prop(trackData, "tags")
    IN  IF Truthy(tags) /\ Truthy(Prop(tags, "title"))
        THEN Prop(tags, "title") ELSE Str(<<>>)

\* the test of match.languages, lines 295-299
languagesMatch(trackData, matchRule) ==
    LET languages == Prop(matchRule, "languages")
    IN  Truthy(languages) => includes(AsList(languages), TrackLanguage(trackData))

\* a test that would compare the values with ==, a string with the number it
\* writes
dispositionsMatch_LooseEquality(trackData, matchRule) ==
    LET want == Prop(matchRule, "dispositions")
        have == Prop(trackData, "disposition")
    IN  Truthy(want) =>
            \A i \in 1..Len(want.o) :
                /\ HasOwn(have, want.o[i].k)
                /\ StrictEq(ToNumber(Prop(have, want.o[i].k)), ToNumber(want.o[i].v))

\* the test of match.dispositions, line 301: every listed key is a key of
\* the track's disposition object and carries a strictly equal value
dispositionsMatch(trackData, matchRule) ==
    LET want == Prop(matchRule, "dispositions")
        have == Prop(trackData, "disposition")
    IN  Truthy(want) =>
            \A i \in 1..Len(want.o) :
                /\ HasOwn(have, want.o[i].k)
                /\ StrictEq(Prop(have, want.o[i].k), want.o[i].v)

\* The patterns of the bounded rule sets are written with literal characters,
\* escaped characters (a backslash and the character it stands for), the dot
\* and capture groups that are not nested; they have no quantifier, class,
\* anchor or alternative. RegExpItems has one item for each character such a
\* pattern consumes
RECURSIVE RegExpItems(_)
RegExpItems(pattern) ==
    IF Len(pattern) = 0 THEN <<>>
    ELSE IF pattern[1] = "\\" /\ Len(pattern) >= 2
    THEN <<[any |-> FALSE, c |-> pattern[2]]>>
         \o RegExpItems(SubSeq(pattern, 3, Len(pattern)))
    ELSE IF pattern[1] \in {"(", ")"} THEN RegExpItems(Tail(pattern))
    ELSE <<[any |-> pattern[1] = ".", c |-> pattern[1]]>> \o RegExpItems(Tail(pattern))

\* the pattern up to the parenthesis that closes the group it begins in
RECURSIVE UpToClose(_)
UpToClose(pattern) ==
    IF Len(pattern) = 0 \/ pattern[1] = ")" THEN <<>>
    ELSE IF pattern[1] = "\\" /\ Len(pattern) >= 2
    THEN <<pattern[1], pattern[2]>> \o UpToClose(SubSeq(pattern, 3, Len(pattern)))
    ELSE <<pattern[1]>> \o UpToClose(Tail(pattern))

\* the capture groups in the order of their opening parentheses, n the
\* number of items before the pattern: <<a, b>> captures the items a+1..b
RECURSIVE RegExpGroups(_, _)
RegExpGroups(pattern, n) ==
    IF Len(pattern) = 0 THEN <<>>
    ELSE IF pattern[1] = "\\" /\ Len(pattern) >= 2
    THEN RegExpGroups(SubSeq(pattern, 3, Len(pattern)), n + 1)
    ELSE IF pattern[1] = "("
    THEN <<<<n, n + Len(RegExpItems(UpToClose(Tail(pattern))))>>>>
         \o RegExpGroups(Tail(pattern), n)
    ELSE IF pattern[1] = ")" THEN RegExpGroups(Tail(pattern), n)
    ELSE RegExpGroups(Tail(pattern), n + 1)

\* the flag i compares letters without their case
ItemMatches(item, ch, ignoreCase) ==
    \/ item.any
    \/ IF ignoreCase THEN ToLowerChar(item.c) = ToLowerChar(ch) ELSE item.c = ch

\* the pattern matches the characters of s after the first p of them
MatchesAt(items, ignoreCase, s, p) ==
    /\ p + Len(items) <= Len(s)
    /\ \A i \in 1..Len(items) : ItemMatches(items[i], s[p + i], ignoreCase)

\* new RegExp(pattern, ignoreCase ? "i" : "").test(s)
RegExpTest(pattern, ignoreCase, s) ==
    \E p \in 0..Len(s) : MatchesAt(RegExpItems(pattern), ignoreCase, s, p)

\* s.matchAll(new RegExp(pattern, ignoreCase ? "gi" : "g")) from position p
\* on: the groups of each match, the matches from the left without overlap
RECURSIVE MatchAllFrom(_, _, _, _, _)
MatchAllFrom(items, groups, ignoreCase, s, p) ==
    IF p > Len(s) THEN <<>>
    ELSE IF MatchesAt(items, ignoreCase, s, p)
    THEN <<[g \in 1..Len(groups) |-> SubSeq(s, p + groups[g][1] + 1, p + groups[g][2])]>>
         \o MatchAllFrom(items, groups, ignoreCase, s,
                         p + (IF Len(items) = 0 THEN 1 ELSE Len(items)))
    ELSE MatchAllFrom(items, groups, ignoreCase, s, p + 1)

matchAll(pattern, ignoreCase, s) ==
    MatchAllFrom(RegExpItems(pattern), RegExpGroups(pattern, 0), ignoreCase, s, 0)

\* the test of match.title, lines 303-307: the pattern is compiled case
\* sensitive only when caseSensitive is truthy
titleMatch(trackData, matchRule) ==
    LET title == Prop(matchRule, "title")
    IN  Truthy(title) =>
            RegExpTest(Prop(title, "pattern").s,
                       ~Truthy(Prop(title, "caseSensitive")),
                       TrackTitle(trackData).s)

\* trackMatches(trackData, matchRule): the tests in the order of the code,
\* each returning false at once
trackMatches(trackData, matchRule) ==
    /\ codecsMatch(trackData, matchRule)
    /\ channelsMatch(trackData, matchRule)
    /\ bitrateMatch(trackData, matchRule)
    /\ languagesMatch(trackData, matchRule)
    /\ dispositionsMatch(trackData, matchRule)
    /\ titleMatch(trackData, matchRule)

\* lines 284-286 and 290-292 on a list of conditions, from condition i on:
\* "fail" at the first condition that does not hold, "throw" at a condition
\* that is no string (line 271: condition.startsWith is not a function),
\* "pass" at the end of the list
RECURSIVE ConditionsOutcome(_, _, _)
ConditionsOutcome(value, conditions, i) ==
    IF i > Len(conditions) THEN "pass"
    ELSE IF conditions[i].t # "string" THEN "throw"
    ELSE IF ~matchesIntCondition(value, conditions[i]) THEN "fail"
    ELSE ConditionsOutcome(value, conditions, i + 1)

SelectorOutcome(value, selector) ==
    IF Truthy(selector) THEN ConditionsOutcome(value, AsList(selector), 1) ELSE "pass"

\* trackMatches(trackData, matchRule) raises a TypeError: the codec test
\* passes and the channels or the bitrate selector meets a condition that is
\* no string before a condition fails
trackMatchesThrows(trackData, matchRule) ==
    /\ codecsMatch(trackData, matchRule)
    /\ \/ SelectorOutcome(Prop(trackData, "channels"), Prop(matchRule, "channels")) = "throw"
       \/ /\ SelectorOutcome(Prop(trackData, "channels"), Prop(matchRule, "channels")) = "pass"
          /\ SelectorOutcome(Prop(trackData, "bit_rate"), Prop(matchRule, "bitrate")) = "throw"

\* ------------------------------------------------------------------ titles

\* String(v), as string concatenation and replaceAll's second argument do it
ToStringJs(v) ==
    CASE v.t = "string" -> v.s
      [] v.t = "number" ->
            IF IsNaN(v) THEN <<"N", "a", "N">> ELSE IntToString(v.n)
      [] v.t = "boolean" ->
            IF v.b THEN <<"t", "r", "u", "e">> ELSE <<"f", "a", "l", "s", "e">>
      [] v.t = "null" -> <<"n", "u", "l", "l">>
      [] v.t = "undefined" -> <<"u", "n", "d", "e", "f", "i", "n", "e", "d">>
      [] OTHER -> <<"[", "o", "b", "j", "e", "c", "t", "]">>

\* s.replace(find, replaceWith): the first occurrence only is replaced
RECURSIVE replaceAll_FirstOnly(_, _, _)
replaceAll_FirstOnly(s, find, replaceWith) ==
    IF Len(s) < Len(find) THEN s
    ELSE IF SubSeq(s, 1, Len(find)) = find
    THEN replaceWith \o SubSeq(s, Len(find) + 1, Len(s))
    ELSE <<s[1]>> \o replaceAll_FirstOnly(Tail(s), find, replaceWith)

\* s.replaceAll(find, replaceWith) for a non-empty string find: the
\* occurrences are replaced from the left, without overlap
RECURSIVE replaceAll(_, _, _)
replaceAll(s, find, replaceWith) ==
    IF Len(s) < Len(find) THEN s
    ELSE IF SubSeq(s, 1, Len(find)) = find
    THEN replaceWith \o replaceAll(SubSeq(s, Len(find) + 1, Len(s)), find, replaceWith)
    ELSE <<s[1]>> \o replaceAll(Tail(s), find, replaceWith)

\* getFancyChannels(channelsCount)
getFancyChannels(channelsCount) ==
    LET channels == parseInt(ToStringJs(channelsCount))
    IN  IF StrictEq(channels, Num(1)) THEN <<"M", "o", "n", "o">>
        ELSE IF StrictEq(channels, Num(2)) THEN <<"S", "t", "e", "r", "e", "o">>
        ELSE (IF IsNaN(channels) THEN <<"N", "a", "N">>
              ELSE IntToString(channels.n - 1)) \o <<".", "1">>

\* the digits of n / 1000 for a natural number n, as (n / 1000).toString()
\* prints them: the fraction without its trailing zeros
Kbps(n) ==
    LET whole == NatToString(n \div 1000)
        r == n % 1000
        d3 == <<Digits[(r \div 100) + 1], Digits[((r \div 10) % 10) + 1],
                Digits[(r % 10) + 1]>>
        frac == IF r % 10 # 0 THEN d3
                ELSE IF r % 100 # 0 THEN SubSeq(d3, 1, 2)
                ELSE SubSeq(d3, 1, 1)
    IN  IF r = 0 THEN whole ELSE whole \o <<".">> \o frac

\* (parseInt(v) / 1000).toString()
KbpsOf(v) ==
    LET n == parseInt(ToStringJs(v))
    IN  IF IsNaN(n) \/ n.n < 0 THEN <<"N", "a", "N">> ELSE Kbps(n.n)

\* the two characters outside ASCII that the sanitization writes, each one
\* character of the title
SingleLow9Quote == "U+201A"
DoublePrime == "U+2033"

Tag(name) == <<"{">> \o name \o <<"}">>

\* lines 364-371: the tags {x_bitrate} and {x_bitrate_kbps}, x the letter i or
\* o, are substituted only when the bitrate is truthy
BitrateTags(title, rate, x) ==
    IF Truthy(rate)
    THEN replaceAll(
             replaceAll(title, Tag(x \o <<"_", "b", "i", "t", "r", "a", "t", "e">>),
                        ToStringJs(rate)),
             Tag(x \o <<"_", "b", "i", "t", "r", "a", "t", "e", "_", "k", "b", "p", "s">>),
             KbpsOf(rate))
    ELSE title

\* lines 332-336: group g of every match is substituted for the tag {g}, the
\* matches in their order and the groups of a match in theirs
RECURSIVE GroupTags(_, _, _)
GroupTags(title, matches, g) ==
    IF Len(matches) = 0 THEN title
    ELSE IF g > Len(matches[1]) THEN GroupTags(title, Tail(matches), 1)
    ELSE GroupTags(replaceAll(title, Tag(NatToString(g)), matches[1][g]), matches, g + 1)

\* lines 330-337: the capture groups, with a match spec that has a title; the
\* pattern is compiled without the flag i only when caseSensitive is truthy
CaptureTags(title, matchTitle, trackTitle) ==
    IF Truthy(matchTitle)
    THEN GroupTags(title,
                   matchAll(Prop(matchTitle, "pattern").s,
                            ~Truthy(Prop(matchTitle, "caseSensitive")), trackTitle),
                   1)
    ELSE title

\* getNewTrackTitle(track, matchTitle, operation, bitrate), lines 321-378
getNewTrackTitle(track, matchTitle, operation, bitrate) ==
    LET trackTitle == TrackTitle(track).s
        t0 == CaptureTags(ToStringJs(Prop(operation, "title")), matchTitle,
                          TrackTitle(track).s)
        t1 == replaceAll(t0, Tag(<<"t", "i", "t", "l", "e">>), trackTitle)
        trackLanguage == TrackLanguage(track).s
        t2 == replaceAll(t1, Tag(<<"l", "a", "n", "g">>), toLowerCase(trackLanguage))
        t3 == replaceAll(t2, Tag(<<"L", "A", "N", "G">>), toUpperCase(trackLanguage))
        i_codec == Prop(track, "codec_name").s
        t4 == replaceAll(t3, Tag(<<"i", "_", "c", "o", "d", "e", "c">>), toLowerCase(i_codec))
        t5 == replaceAll(t4, Tag(<<"i", "_", "C", "O", "D", "E", "C">>), toUpperCase(i_codec))
        opCodec == Prop(operation, "codec")
        codecName == IF Truthy(opCodec) /\ ~StrictEq(opCodec, Str(<<"c", "o", "p", "y">>))
                     THEN opCodec.s ELSE i_codec
        t6 == replaceAll(t5, Tag(<<"o", "_", "c", "o", "d", "e", "c">>), toLowerCase(codecName))
        t7 == replaceAll(t6, Tag(<<"o", "_", "C", "O", "D", "E", "C">>), toUpperCase(codecName))
        i_channels == Prop(track, "channels")
        t8 == replaceAll(t7, Tag(<<"i", "_", "c", "h", "a", "n", "n", "e", "l", "s">>),
                         ToStringJs(i_channels))
        t9 == replaceAll(t8, Tag(<<"i", "_", "c", "h", "a", "n", "n", "e", "l", "s",
                                   "_", "f", "a", "n", "c", "y">>),
                         getFancyChannels(i_channels))
        t10 == replaceAll(t9, Tag(<<"i", "_", "c", "h", "a", "n", "n", "e", "l",
                                    "_", "l", "a", "y", "o", "u", "t">>),
                          ToStringJs(Prop(track, "channel_layout")))
        outputChannels == IF Truthy(Prop(operation, "channels"))
                          THEN Prop(operation, "channels") ELSE i_channels
        t11 == replaceAll(t10, Tag(<<"o", "_", "c", "h", "a", "n", "n", "e", "l", "s">>),
                          ToStringJs(outputChannels))
        t12 == replaceAll(t11, Tag(<<"o", "_", "c", "h", "a", "n", "n", "e", "l", "s",
                                     "_", "f", "a", "n", "c", "y">>),
                          getFancyChannels(outputChannels))
        t13 == BitrateTags(t12, Prop(track, "bit_rate"), <<"i">>)
        t14 == BitrateTags(t13, bitrate, <<"o">>)
        t15 == replaceAll(t14, <<",">>, <<SingleLow9Quote>>)
    IN  replaceAll(t15, <<"\"">>, <<DoublePrime>>)

\* the flags with the first true one bare, wherever it stands
RECURSIVE DispositionFlagsFrom_FirstTrueBare(_, _)
DispositionFlagsFrom_FirstTrueBare(entries, i) ==
    IF i > Len(entries) THEN <<>>
    ELSE (IF StrictEq(entries[i].v, Bool(TRUE))
          THEN (IF \A j \in 1..(i - 1) : ~StrictEq(entries[j].v, Bool(TRUE))
                THEN <<entries[i].k>> ELSE <<"+", entries[i].k>>)
          ELSE <<"-", entries[i].k>>)
         \o DispositionFlagsFrom_FirstTrueBare(entries, i + 1)

\* getDispositionFlags(dispositions): the flags of the object in insertion
\* order, joined without a separator
RECURSIVE DispositionFlagsFrom(_, _)
DispositionFlagsFrom(entries, i) ==
    IF i > Len(entries) THEN <<>>
    ELSE (IF StrictEq(entries[i].v, Bool(TRUE))
          THEN (IF i = 1 THEN <<entries[i].k>> ELSE <<"+", entries[i].k>>)
          ELSE <<"-", entries[i].k>>)
         \o DispositionFlagsFrom(entries, i + 1)

getDispositionFlags(dispositions) == DispositionFlagsFrom(dispositions.o, 1)

\* --------------------------------------------------------------- validator

\* An error message of the validator: a string, with the indices it names
Err(msg, i, j) == [t |-> "string", s |-> <<msg>>, i |-> i, j |-> j]

\* the error found first: a check returns its error at once, and the checks
\* after it run only when it found none
OrElse(error, rest) == IF error.t # "undefined" THEN error ELSE rest

\* typeof v !== 'object' || v === null
NotAnObject(v) == TypeOf(v) # "object" \/ v.t = "null"

\* o with its property k set to v (an assignment to an existing property
\* keeps the property's place)
SetProp(o, k, v) ==
    Obj([x \in 1..Len(o.o) |-> IF o.o[x].k = k THEN E(k, v) ELSE o.o[x]])

\* the values for(let flag in d) visits: the properties of an object, the
\* elements of an array
OwnValues(d) ==
    IF IsArray(d) THEN d.a ELSE [x \in 1..Len(d.o) |-> d.o[x].v]

\* lines 235-240 and 249-254: the dispositions of an operation are an object
\* and every flag of it is a boolean
OperationDispositionsError(body, kind, i, j) ==
    LET d == Prop(body, "dispositions")
    IN  IF ~HasOwn(body, "dispositions") THEN Undefined
        ELSE IF NotAnObject(d)
        THEN Err("'dispositions' property in operation must be an object.", i, j)
        ELSE IF \E x \in 1..Len(OwnValues(d)) : TypeOf(OwnValues(d)[x]) # "boolean"
        THEN Err("flag property in 'dispositions' object must be a boolean.", i, j)
        ELSE Undefined

\* lines 228-258: the error of operation j of rule i, undefined when it has none
OperationError(operation, i, j) ==
    IF NotAnObject(operation)
    THEN Err("Operation is not an object.", i, j)
    ELSE IF HasOwn(operation, "copy")
    THEN LET copy == Prop(operation, "copy")
         IN  IF NotAnObject(copy)
             THEN Err("'copy' operation must be an object.", i, j)
             ELSE IF HasOwn(copy, "title") /\ TypeOf(Prop(copy, "title")) # "string"
             THEN Err("'title' property in 'copy' operation must be a string.", i, j)
             ELSE OperationDispositionsError(copy, "copy", i, j)
    ELSE IF HasOwn(operation, "transcode")
    THEN LET transcode == Prop(operation, "transcode")
         IN  IF NotAnObject(transcode)
             THEN Err("'transcode' operation must be an object.", i, j)
             ELSE IF ~HasOwn(transcode, "codec")
             THEN Err("'transcode' operation is missing 'codec' property.", i, j)
             ELSE IF TypeOf(Prop(transcode, "codec")) # "string"
             THEN Err("'codec' property in 'transcode' operation must be a string.", i, j)
             ELSE IF HasOwn(transcode, "channels")
                     /\ TypeOf(Prop(transcode, "channels")) # "number"
             THEN Err("'channels' property in 'transcode' operation must be a number.", i, j)
             ELSE IF HasOwn(transcode, "bitrate")
                     /\ TypeOf(Prop(transcode, "bitrate")) # "number"
             THEN Err("'bitrate' property in 'transcode' operation must be a number.", i, j)
             ELSE IF HasOwn(transcode, "title")
                     /\ TypeOf(Prop(transcode, "title")) # "string"
             THEN Err("'title' property in 'transcode' operation must be a string.", i, j)
             ELSE OrElse(OperationDispositionsError(transcode, "transcode", i, j),
                     IF HasOwn(transcode, "filters")
                        /\ TypeOf(Prop(transcode, "filters")) # "string"
                     THEN Err("'filters' property in 'transcode' operation must be a string.", i, j)
                     ELSE Undefined)
    ELSE Err("Operation must have either 'copy' or 'transcode' property.", i, j)

\* the loop of lines 227-259: the error of the first operation that has one
RECURSIVE OperationsError(_, _, _)
OperationsError(operations, i, j) ==
    IF j > Len(operations) THEN Undefined
    ELSE OrElse(OperationError(operations[j], i, j - 1),
                OperationsError(operations, i, j + 1))

\* a check that would ask for boolean values, as the checks of lines 236 and
\* 251 do for the dispositions of an operation
MatchDispositionsRejected_ByValue(match) ==
    /\ HasOwn(match, "dispositions")
    /\ \/ NotAnObject(Prop(match, "dispositions"))
       \/ \E y \in DOMAIN OwnValues(Prop(match, "dispositions")) :
              TypeOf(OwnValues(Prop(match, "dispositions"))[y]) # "boolean"

\* line 214: the dispositions of a match spec are refused when they are no object
MatchDispositionsRejected(match) ==
    HasOwn(match, "dispositions") /\ NotAnObject(Prop(match, "dispositions"))

\* lines 206-222: the error of the match object of rule i
MatchError(match, i) ==
    LET codecs == Prop(match, "codecs")
        title == Prop(match, "title")
    IN  IF NotAnObject(match)
        THEN Err("Match property is not an object.", i, -1)
        ELSE IF ~HasOwn(match, "codecs")
        THEN Err("Match property is missing 'codecs' property.", i, -1)
        ELSE IF ~IsArray(codecs) /\ ~StrictEq(codecs, Str(<<"*">>)) /\ codecs.t # "string"
        \* match.codecs.startsWith is no function: the TypeError is caught at
        \* line 264 and reported as invalid JSON
        THEN Err("Invalid JSON", i, -1)
        ELSE IF ~IsArray(codecs) /\ ~StrictEq(codecs, Str(<<"*">>))
                /\ ~startsWith(codecs.s, <<"!">>)
        THEN Err("'codecs' property must be an array, '*', or '!codec'.", i, -1)
        ELSE IF HasOwn(match, "channels") /\ TypeOf(Prop(match, "channels")) # "string"
                /\ ~IsArray(Prop(match, "channels"))
        THEN Err("'channels' property must be a string or an array.", i, -1)
        ELSE IF HasOwn(match, "bitrate") /\ TypeOf(Prop(match, "bitrate")) # "string"
                /\ ~IsArray(Prop(match, "bitrate"))
        THEN Err("'bitrate' property must be a string or an array.", i, -1)
        ELSE IF HasOwn(match, "languages") /\ TypeOf(Prop(match, "languages")) # "string"
                /\ ~IsArray(Prop(match, "languages"))
        THEN Err("'languages' property must be a string or an array.", i, -1)
        ELSE IF MatchDispositionsRejected(match)
        THEN Err("'dispositions' property must be an object.", i, -1)
        ELSE IF ~HasOwn(match, "title") THEN Undefined
        ELSE IF NotAnObject(title)
        THEN Err("'title' property must be an object.", i, -1)
        ELSE IF ~HasOwn(title, "pattern")
        THEN Err("'title' property is missing 'pattern' property.", i, -1)
        ELSE IF TypeOf(Prop(title, "pattern")) # "string"
        THEN Err("'pattern' property must be a string.", i, -1)
        ELSE IF HasOwn(title, "caseSensitive")
                /\ TypeOf(Prop(title, "caseSensitive")) # "boolean"
        THEN Err("'caseSensitive' property must be a boolean.", i, -1)
        ELSE Undefined

\* lines 201-259: the error of rule i, undefined when it has none
RuleError(rule, i) ==
    IF NotAnObject(rule)
    THEN Err("Rule is not an object.", i, -1)
    ELSE IF ~HasOwn(rule, "match") \/ ~HasOwn(rule, "operations")
    THEN Err("Rule is missing 'match' or 'operations' property.", i, -1)
    ELSE OrElse(MatchError(Prop(rule, "match"), i),
                IF ~IsArray(Prop(rule, "operations"))
                THEN Err("Operations property must be an array.", i, -1)
                ELSE OperationsError(Prop(rule, "operations").a, i, 1))

\* line 221: a rule that passed the checks of its match, with every pair of
\* backslashes of its title pattern replaced by one backslash
NormalizedRule(rule) ==
    LET match == Prop(rule, "match")
        title == Prop(match, "title")
    IN  IF ~HasOwn(match, "title") THEN rule
        ELSE SetProp(rule, "match",
                 SetProp(match, "title",
                     SetProp(title, "pattern",
                         Str(replaceAll(Prop(title, "pattern").s,
                                        <<"\\", "\\">>, <<"\\">>)))))

\* a loop that would pass over a rule with an error and keep the other rules
RECURSIVE ValidateFrom_KeepsGoodRules(_, _, _)
ValidateFrom_KeepsGoodRules(rules, i, acc) ==
    IF i > Len(rules) THEN Arr(acc)
    ELSE ValidateFrom_KeepsGoodRules(rules, i + 1,
             IF RuleError(rules[i], i - 1).t = "undefined"
             THEN Append(acc, NormalizedRule(rules[i])) ELSE acc)

\* the loop of lines 200-260 from rule i on, acc the rules already passed
RECURSIVE ValidateFrom(_, _, _)
ValidateFrom(rules, i, acc) ==
    IF i > Len(rules) THEN Arr(acc)
    ELSE OrElse(RuleError(rules[i], i - 1),
                ValidateFrom(rules, i + 1, Append(acc, NormalizedRule(rules[i]))))

\* validateTranscodeRules(jsonString). The text is given by what JSON.parse
\* makes of it: [parses |-> TRUE, value |-> v], or [parses |-> FALSE] for a
\* text JSON.parse throws on (the default '' is one)
validateTranscodeRules(jsonString) ==
    IF ~jsonString.parses THEN Err("Invalid JSON", -1, -1)
    ELSE IF ~IsArray(jsonString.value)
    \* Array.isArray(null) is false, and so is that of every primitive
    THEN Err("Expected a JSON array of rules.", -1, -1)
    ELSE ValidateFrom(jsonString.value.a, 1, <<>>)

\* --------------------------------------------------------------- watermark

\* the characters of a JSON string literal: a quote or a backslash of the
\* string is written after a backslash
RECURSIVE JsonQuoted(_)
JsonQuoted(s) ==
    IF Len(s) = 0 THEN <<>>
    ELSE (IF s[1] \in {"\"", "\\"} THEN <<"\\", s[1]>> ELSE <<s[1]>>)
         \o JsonQuoted(Tail(s))

\* JSON.stringify(v) of a value JSON.parse returned, as a sequence of
\* characters (a property name is one element of it)
RECURSIVE JSONstringify(_)
RECURSIVE JsonElements(_, _)
RECURSIVE JsonMembers(_, _)
JSONstringify(v) ==
    CASE v.t = "string" -> <<"\"">> \o JsonQuoted(v.s) \o <<"\"">>
      [] v.t = "number" -> IF IsNaN(v) THEN <<"n", "u", "l", "l">> ELSE IntToString(v.n)
      [] v.t = "boolean" -> ToStringJs(v)
      [] v.t = "null" -> <<"n", "u", "l", "l">>
      [] v.t = "array" -> <<"[">> \o JsonElements(v.a, 1) \o <<"]">>
      [] v.t = "object" -> <<"{">> \o JsonMembers(v.o, 1) \o <<"}">>
      [] OTHER -> <<>>
JsonElements(a, i) ==
    IF i > Len(a) THEN <<>>
    ELSE (IF i > 1 THEN <<",">> ELSE <<>>) \o JSONstringify(a[i]) \o JsonElements(a, i + 1)
JsonMembers(o, i) ==
    IF i > Len(o) THEN <<>>
    ELSE (IF i > 1 THEN <<",">> ELSE <<>>)
         \o <<"\"", o[i].k, "\"", ":">> \o JSONstringify(o[i].v)
         \o JsonMembers(o, i + 1)

\* the characters btoa cannot encode (code points above 255)
NotLatin1 == {SingleLow9Quote, DoublePrime}

\* btoa(s). Base64 is one-to-one on byte strings, and a base64 text is given
\* here by the bytes it encodes; btoa throws on a character above 255
btoa(s) ==
    IF \E i \in 1..Len(s) : s[i] \in NotLatin1
    THEN [throws |-> TRUE]
    ELSE [throws |-> FALSE, b64 |-> s]

\* a watermark that would name the plugin only, whatever the rules
Watermark_OfPluginOnly(rules) ==
    [plugin |-> "Tdarr:advanced_audio_transcode_rename_remove", b64 |-> <<>>]

\* line 406: `[Tdarr:advanced_audio_transcode_rename_remove:${btoa(...)}]`.
\* The watermark is one piece of marker text: a marker string is a sequence
\* of pieces, each a watermark or [text |-> ...], a run of other text that
\* holds no '[Tdarr:' marker; base64 has no '[', ']' or ':', so that a
\* watermark occurs in a marker string only as one of its pieces
Watermark(rules) ==
    [plugin |-> "Tdarr:advanced_audio_transcode_rename_remove",
     b64 |-> btoa(JSONstringify(rules)).b64]

\* a test that would ask the marker text to be the watermark and nothing else
MarkerIncludes_WholeText(copyrightData, pluginWatermark) ==
    copyrightData = <<pluginWatermark>>

\* copyrightData.includes(pluginWatermark), line 417
MarkerIncludes(copyrightData, pluginWatermark) ==
    \E i \in 1..Len(copyrightData) : copyrightData[i] = pluginWatermark

\* line 416: file.ffProbeData.format && ...tags && ...tags.COPYRIGHT || ''
CopyrightOf(file) ==
    LET format == Prop(Prop(file, "ffProbeData"), "format")
        tags == Prop(format, "tags")
        c == Prop(tags, "COPYRIGHT")
    IN  IF Truthy(format) /\ Truthy(tags) /\ Truthy(c) THEN c.s ELSE <<>>

\* ------------------------------------------------------------- synthesizer

\* codecChannelsLimits[targetCodec], lines 184-187
codecChannelsLimits(targetCodec) ==
    IF targetCodec = <<"a", "c", "3">> THEN Num(6)
    ELSE IF targetCodec = <<"m", "p", "3">> THEN Num(2)
    ELSE Undefined

\* codecBitrateLimits[targetCodec], lines 188-191
codecBitrateLimits(targetCodec) ==
    IF targetCodec = <<"a", "c", "3">> THEN Num(640000)
    ELSE IF targetCodec = <<"m", "p", "3">> THEN Num(320000)
    ELSE Undefined

\* The state of the pass over the audio tracks is the record
\*   [cmds, inIdx, outIdx, req, log, executed]
\* of audioTracksCommands, inputTrackIndex, outputTrackIndex,
\* requireTranscode, the entries logged, and the history of the operations
\* executed, <<input index, rule index, operation index>> each.
\* An element of cmds is one string pushed on audioTracksCommands.

\* line 480: the codec of the output
TargetCodec(track, transcode) ==
    IF StrictEq(Prop(transcode, "codec"), Str(<<"c", "o", "p", "y">>))
    THEN Prop(track, "codec_name").s
    ELSE Prop(transcode, "codec").s

\* line 490: the target is AAC, the source has more than 6 channels and the
\* operation gives no channels
ForceChannels(targetCodec, trackChannels, opChannels) ==
    /\ toLowerCase(targetCodec) = <<"a", "a", "c">>
    /\ JsGt(trackChannels, Num(6))
    /\ ~Truthy(opChannels)

\* lines 485-494: the channels before the ceiling of the codec applies
RequestedChannels(targetCodec, trackChannels, opChannels) ==
    IF ForceChannels(targetCodec, trackChannels, opChannels) THEN Num(8)
    ELSE IF Truthy(opChannels) THEN opChannels
    ELSE trackChannels

\* codecChannelsLimits[targetCodec] && channels > codecChannelsLimits[targetCodec]
OverLimit(limit, value) == Truthy(limit) /\ JsGt(value, limit)

\* the -ac instruction without the ceiling of the codec
ChannelsCommands_Unclamped(out, targetCodec, trackChannels, opChannels, channels) ==
    IF \/ Truthy(opChannels)
       \/ ~StrictEq(channels, trackChannels)
       \/ OverLimit(codecChannelsLimits(targetCodec), channels)
       \/ ForceChannels(targetCodec, trackChannels, opChannels)
    THEN <<[kind |-> "-ac", out |-> out, channels |-> channels]>>
    ELSE <<>>

\* the -ac instruction without the forceChannels term of line 496
ChannelsCommands_Unforced(out, targetCodec, trackChannels, opChannels, channels) ==
    IF \/ Truthy(opChannels)
       \/ ~StrictEq(channels, trackChannels)
       \/ OverLimit(codecChannelsLimits(targetCodec), channels)
    THEN <<[kind |-> "-ac", out |-> out,
            channels |-> IF OverLimit(codecChannelsLimits(targetCodec), channels)
                         THEN codecChannelsLimits(targetCodec) ELSE channels]>>
    ELSE <<>>

\* lines 496-501: the -ac instruction, when one is pushed
ChannelsCommands(out, targetCodec, trackChannels, opChannels, channels) ==
    IF \/ Truthy(opChannels)
       \/ ~StrictEq(channels, trackChannels)
       \/ OverLimit(codecChannelsLimits(targetCodec), channels)
       \/ ForceChannels(targetCodec, trackChannels, opChannels)
    THEN <<[kind |-> "-ac", out |-> out,
            channels |-> IF OverLimit(codecChannelsLimits(targetCodec), channels)
                         THEN codecChannelsLimits(targetCodec) ELSE channels]>>
    ELSE <<>>

\* the bitrate without the ceiling of the codec
ResolvedBitrate_Unclamped(targetCodec, trackBitrate, opBitrate) ==
    IF ~Truthy(opBitrate) THEN trackBitrate ELSE opBitrate

\* lines 504-507: the bitrate after the block that sets it
ResolvedBitrate(targetCodec, trackBitrate, opBitrate) ==
    IF ~Truthy(opBitrate) THEN trackBitrate
    ELSE IF OverLimit(codecBitrateLimits(targetCodec), opBitrate)
    THEN codecBitrateLimits(targetCodec)
    ELSE opBitrate

\* lines 505-510: the -b instruction, pushed only for a bitrate of the operation
BitrateCommands(out, opBitrate, bitrate) ==
    IF Truthy(opBitrate)
    THEN <<[kind |-> "-b", out |-> out, bitrate |-> bitrate]>>
    ELSE <<>>

\* lines 462-466 and 513-517: the title instruction of an operation body
TitleCommands(out, track, rule, body, bitrate) ==
    IF Truthy(Prop(body, "title"))
    THEN <<[kind |-> "-metadata title", out |-> out,
            title |-> getNewTrackTitle(track, Prop(Prop(rule, "match"), "title"),
                                       body, bitrate)]>>
    ELSE <<>>

\* lines 467-471 and 520-524: the disposition instruction of an operation body
DispositionCommands(out, body) ==
    IF Truthy(Prop(body, "dispositions"))
    THEN <<[kind |-> "-disposition", out |-> out,
            flags |-> getDispositionFlags(Prop(body, "dispositions"))]>>
    ELSE <<>>

\* lines 527-530: the filter instruction
FilterCommands(out, transcode) ==
    IF Truthy(Prop(transcode, "filters"))
    THEN <<[kind |-> "-filter", out |-> out, filters |-> Prop(transcode, "filters").s]>>
    ELSE <<>>

\* a copy that would map the stream under the output index
CopyCommands_MapsOutputIndex(track, rule, operation, st) ==
    <<[kind |-> "-map -c copy", in |-> st.outIdx, out |-> st.outIdx]>>
    \o TitleCommands(st.outIdx, track, rule, Prop(operation, "copy"), Prop(track, "bit_rate"))
    \o DispositionCommands(st.outIdx, Prop(operation, "copy"))

\* lines 459-472: a copy operation
CopyCommands(track, rule, operation, st) ==
    <<[kind |-> "-map -c copy", in |-> st.inIdx, out |-> st.outIdx]>>
    \o TitleCommands(st.outIdx, track, rule, Prop(operation, "copy"), Prop(track, "bit_rate"))
    \o DispositionCommands(st.outIdx, Prop(operation, "copy"))

\* lines 477-530 for the target codec of the operation
TranscodeTo(track, rule, transcode, st, targetCodec) ==
    <<[kind |-> "-map", in |-> st.inIdx],
      [kind |-> "-c", out |-> st.outIdx, codec |-> targetCodec]>>
    \o ChannelsCommands(st.outIdx, targetCodec, Prop(track, "channels"),
                        Prop(transcode, "channels"),
                        RequestedChannels(targetCodec, Prop(track, "channels"),
                                          Prop(transcode, "channels")))
    \o BitrateCommands(st.outIdx, Prop(transcode, "bitrate"),
                       ResolvedBitrate(targetCodec, Prop(track, "bit_rate"),
                                       Prop(transcode, "bitrate")))
    \o TitleCommands(st.outIdx, track, rule, transcode,
                     ResolvedBitrate(targetCodec, Prop(track, "bit_rate"),
                                     Prop(transcode, "bitrate")))
    \o DispositionCommands(st.outIdx, transcode)
    \o FilterCommands(st.outIdx, transcode)

\* lines 475-531: a transcode operation
TranscodeCommands(track, rule, operation, st) ==
    TranscodeTo(track, rule, Prop(operation, "transcode"), st,
                TargetCodec(track, Prop(operation, "transcode")))

\* lines 455-536, the callback of rule.operations.forEach: operation j of
\* rule i on the track; copy is looked at first, transcode only without it
OperationCommands(track, rule, operation, st) ==
    IF Truthy(Prop(operation, "copy"))
    THEN CopyCommands(track, rule, operation, st)
    ELSE IF Truthy(Prop(operation, "transcode"))
    THEN TranscodeCommands(track, rule, operation, st)
    ELSE <<>>

OperationLog(operation) ==
    IF Truthy(Prop(operation, "copy")) THEN " -> Copying track"
    ELSE IF Truthy(Prop(operation, "transcode")) THEN " -> Transcoding to"
    ELSE " -> "

\* an operation that would not take an output index of its own
ApplyOperation_KeepsIndex(track, rule, i, j, st) ==
    [st EXCEPT !.cmds = @ \o OperationCommands(track, rule,
                                               Prop(rule, "operations").a[j + 1], st),
               !.log = Append(@, [msg |-> OperationLog(Prop(rule, "operations").a[j + 1])]),
               !.req = TRUE,
               !.executed = Append(@, <<st.inIdx, i, j>>)]

\* an operation that would ask for a change only when it is no plain copy
ApplyOperation_PlainCopyUnchanged(track, rule, i, j, st) ==
    [st EXCEPT !.cmds = @ \o OperationCommands(track, rule,
                                               Prop(rule, "operations").a[j + 1], st),
               !.log = Append(@, [msg |-> OperationLog(Prop(rule, "operations").a[j + 1])]),
               !.outIdx = @ + 1,
               !.req = @ \/ Len(OperationCommands(track, rule,
                                                  Prop(rule, "operations").a[j + 1], st)) > 1,
               !.executed = Append(@, <<st.inIdx, i, j>>)]

ApplyOperation(track, rule, i, j, st) ==
    [st EXCEPT !.cmds = @ \o OperationCommands(track, rule,
                                               Prop(rule, "operations").a[j + 1], st),
               !.log = Append(@, [msg |-> OperationLog(Prop(rule, "operations").a[j + 1])]),
               !.outIdx = @ + 1,
               !.req = TRUE,
               !.executed = Append(@, <<st.inIdx, i, j>>)]

\* rule.operations.forEach from operation j on
RECURSIVE ApplyOperations(_, _, _, _, _)
ApplyOperations(track, rule, i, j, st) ==
    IF j >= Len(Prop(rule, "operations").a) THEN st
    ELSE ApplyOperations(track, rule, i, j + 1, ApplyOperation(track, rule, i, j, st))

\* a removal that would leave a gap in the output numbering
ApplyRule_RemovalTakesIndex(track, rule, i, st) ==
    IF Len(Prop(rule, "operations").a) = 0
    THEN [st EXCEPT !.log = Append(@, [msg |-> " -> Removing track"]),
                    !.outIdx = @ + 1]
    ELSE ApplyOperations(track, rule, i, 0, st)

\* lines 450-537: the operations of the rule that matched, none of them when
\* the list is empty
ApplyRule(track, rule, i, st) ==
    IF Len(Prop(rule, "operations").a) = 0
    THEN [st EXCEPT !.log = Append(@, [msg |-> " -> Removing track"])]
    ELSE ApplyOperations(track, rule, i, 0, st)

\* a scan that would let every matching rule act on the track
SkipsRule_Never(ruleMatched) == FALSE

\* line 444: a rule is passed over once a rule has matched the track
SkipsRule(ruleMatched) == ruleMatched

\* lines 443-538, transcodeRules.forEach from rule i on: the result is
\* <<ruleMatched, st>>
RECURSIVE ScanRules(_, _, _, _, _)
ScanRules(track, rules, i, ruleMatched, st) ==
    IF i >= Len(rules) THEN <<ruleMatched, st>>
    ELSE IF SkipsRule(ruleMatched)
    THEN ScanRules(track, rules, i + 1, ruleMatched, st)
    ELSE IF ~trackMatches(track, Prop(rules[i + 1], "match"))
    THEN ScanRules(track, rules, i + 1, ruleMatched, st)
    ELSE ScanRules(track, rules, i + 1, TRUE,
             ApplyRule(track, rules[i + 1], i,
                 [st EXCEPT !.log = Append(@, [msg |-> "matches rule, applying operations ..."])]))

\* lines 443-445: the scan of the rules from rule i on raises the TypeError
\* of trackMatches before a rule matches the track
RECURSIVE ScanThrows(_, _, _)
ScanThrows(track, rules, i) ==
    IF i >= Len(rules) THEN FALSE
    ELSE IF trackMatchesThrows(track, Prop(rules[i + 1], "match")) THEN TRUE
    ELSE IF trackMatches(track, Prop(rules[i + 1], "match")) THEN FALSE
    ELSE ScanThrows(track, rules, i + 1)

\* a copy that would be written under the input position of the track
UnmatchedCopy_AtInputIndex(st) ==
    [st EXCEPT !.cmds = Append(@, [kind |-> "-map -c copy", in |-> st.inIdx, out |-> st.inIdx]),
               !.log = Append(@, [msg |-> "didn't match any rule, copying track"]),
               !.outIdx = @ + 1]

\* lines 540-544: the copy of a track no rule matched
UnmatchedCopy(st) ==
    [st EXCEPT !.cmds = Append(@, [kind |-> "-map -c copy", in |-> st.inIdx, out |-> st.outIdx]),
               !.log = Append(@, [msg |-> "didn't match any rule, copying track"]),
               !.outIdx = @ + 1]

\* lines 437-547, the callback of audioTracks.forEach on one track
AfterRules(scan) ==
    [(IF ~scan[1] THEN UnmatchedCopy(scan[2]) ELSE scan[2]) EXCEPT !.inIdx = @ + 1]

TrackStep(track, rules, st) == AfterRules(ScanRules(track, rules, 0, FALSE, st))

\* audioTracks.forEach over a whole list of tracks
RECURSIVE RunPass(_, _, _)
RunPass(tracks, rules, st) ==
    IF st.inIdx >= Len(tracks) THEN st
    ELSE RunPass(tracks, rules, TrackStep(tracks[st.inIdx + 1], rules, st))

\* the subtitle streams all mapped, with or without a codec name
RECURSIVE SubtitleCommands_All(_, _)
SubtitleCommands_All(subtitleStreams, idx) ==
    IF idx >= Len(subtitleStreams) THEN <<>>
    ELSE <<[kind |-> "-map -c:s copy", in |-> idx, out |-> idx]>>
         \o SubtitleCommands_All(subtitleStreams, idx + 1)

\* lines 555-566: the subtitle streams that carry a codec name, each mapped
\* and copied under its position among the subtitle streams
RECURSIVE SubtitleCommands(_, _)
SubtitleCommands(subtitleStreams, idx) ==
    IF idx >= Len(subtitleStreams) THEN <<>>
    ELSE LET s == subtitleStreams[idx + 1]
             name == Prop(s, "codec_name")
         IN  (IF Truthy(name) /\ ~StrictEq(name, Str(<<"n", "o", "n", "e">>))
              THEN <<[kind |-> "-map -c:s copy", in |-> idx, out |-> idx]>>
              ELSE <<>>)
             \o SubtitleCommands(subtitleStreams, idx + 1)

\* streams.filter(stream => stream.codec_type === type)
RECURSIVE StreamsOfType(_, _)
StreamsOfType(streams, type) ==
    IF Len(streams) = 0 THEN <<>>
    ELSE (IF StrictEq(Prop(streams[1], "codec_type"), Str(type))
          THEN <<streams[1]>> ELSE <<>>)
         \o StreamsOfType(Tail(streams), type)

\* ------------------------------------------------------------------- state

VARIABLES
    file,                 \* the file argument: ffProbeData with streams and format tags
    inputs,               \* the inputs argument: transcodeRules (JSON text), dryRun
    pc,                   \* "idle", "start", "tracks", "done", "threw"; "call" in SpecMatch;
                          \* "add", "adding", "added" in SpecAdd
    response,             \* [processFile, preset, infoLog]
    transcodeRules,       \* line 398: the validated rules, or the error string
    pluginWatermark,      \* line 406
    copyrightData,        \* line 416
    audioTracks,          \* line 424
    audioTracksCommands,  \* line 432
    inputTrackIndex,      \* line 433
    outputTrackIndex,     \* line 434
    requireTranscode,     \* line 435
    executed,             \* history: <<input index, rule index, operation index>> of
                          \* each call of the callback of line 455
    stamped,              \* history: the rule document and the validated rules of the
                          \* runs whose preset the host applied to the file, oldest first
    runs,                 \* the number of runs the host has queued on the file
    call                  \* SpecMatch: the arguments and the result of a call of the matcher

vars == <<file, inputs, pc, response, transcodeRules, pluginWatermark, copyrightData,
          audioTracks, audioTracksCommands, inputTrackIndex, outputTrackIndex,
          requireTranscode, executed, stamped, runs, call>>

\* ------------------------------------------------------------------ bounds

MaxTracks == 2
MaxRules == 2
MaxBadRules == 2
MaxRuns == 3
MaxValue == 11
MaxConditions == 2
MaxFlags == 3

\* ------------------------------------------------------------- input pools

AAC == <<"a", "a", "c">>
AC3 == <<"a", "c", "3">>
EAC3 == <<"e", "a", "c", "3">>
TRUEHD == <<"t", "r", "u", "e", "h", "d">>
FLAC == <<"f", "l", "a", "c">>
ENG == <<"e", "n", "g">>
FRE == <<"f", "r", "e">>

\* Audio streams as ffprobe reports them (the stream index is set by StreamsOf)
TrackTrueHD ==
    Obj(<<E("codec_type", Str(<<"a", "u", "d", "i", "o">>)),
          E("codec_name", Str(TRUEHD)),
          E("channels", Num(8)),
          E("channel_layout", Str(<<"7", ".", "1">>)),
          E("disposition", Obj(<<E("default", Num(1)), E("comment", Num(0))>>)),
          E("tags", Obj(<<E("language", Str(ENG)), E("title", Str(<<"M", "a", "i", "n">>))>>))>>)
TrackEac3 ==
    Obj(<<E("codec_type", Str(<<"a", "u", "d", "i", "o">>)),
          E("codec_name", Str(EAC3)),
          E("channels", Num(6)),
          E("bit_rate", Num(768000)),
          E("channel_layout", Str(<<"5", ".", "1", "(", "s", "i", "d", "e", ")">>)),
          E("disposition", Obj(<<E("default", Num(0)), E("comment", Num(0))>>)),
          E("tags", Obj(<<E("language", Str(FRE))>>))>>)
TrackAacCommentary ==
    Obj(<<E("codec_type", Str(<<"a", "u", "d", "i", "o">>)),
          E("codec_name", Str(AAC)),
          E("channels", Num(2)),
          E("bit_rate", Num(128000)),
          E("channel_layout", Str(<<"s", "t", "e", "r", "e", "o">>)),
          E("disposition", Obj(<<E("default", Num(0)), E("comment", Num(1))>>)),
          E("tags", Obj(<<E("language", Str(ENG)),
                          E("title", Str(<<"D", "i", "r", ",", " ", "\"", "A", "\"">>))>>))>>)
TrackAc3 ==
    Obj(<<E("codec_type", Str(<<"a", "u", "d", "i", "o">>)),
          E("codec_name", Str(AC3)),
          E("channels", Num(6)),
          E("bit_rate", Num(640000)),
          E("channel_layout", Str(<<"5", ".", "1">>)),
          E("disposition", Obj(<<E("default", Num(0)), E("comment", Num(0))>>))>>)

TrackPool == <<TrackTrueHD, TrackEac3, TrackAacCommentary, TrackAc3>>

VideoStream ==
    Obj(<<E("codec_type", Str(<<"v", "i", "d", "e", "o">>)),
          E("codec_name", Str(<<"h", "2", "6", "4">>))>>)
SubtitleSrt ==
    Obj(<<E("codec_type", Str(<<"s", "u", "b", "t", "i", "t", "l", "e">>)),
          E("codec_name", Str(<<"s", "u", "b", "r", "i", "p">>))>>)
SubtitleUnknown ==
    Obj(<<E("codec_type", Str(<<"s", "u", "b", "t", "i", "t", "l", "e">>))>>)

\* Rules
RuleDropComments ==
    Obj(<<E("name", Str(<<"c">>)),
          E("match", Obj(<<E("codecs", Str(<<"*">>)),
                           E("dispositions", Obj(<<E("comment", Num(1))>>))>>)),
          E("operations", Arr(<<>>))>>)
RuleLosslessToAac ==
    Obj(<<E("match", Obj(<<E("codecs", Arr(<<Str(TRUEHD), Str(FLAC)>>)),
                           E("channels", Str(<<">", "6">>))>>)),
          E("operations", Arr(<<
              Obj(<<E("transcode", Obj(<<
                  E("codec", Str(AAC)),
                  E("bitrate", Num(768000)),
                  E("title", Str(<<"{", "t", "i", "t", "l", "e", "}", ",", " ",
                                   "{", "o", "_", "C", "O", "D", "E", "C", "}">>)),
                  E("dispositions", Obj(<<E("default", Bool(TRUE)),
                                          E("comment", Bool(FALSE))>>))>>))>>),
              Obj(<<E("copy", Obj(<<
                  E("dispositions", Obj(<<E("default", Bool(FALSE))>>))>>))>>)>>))>>)
RuleToAc3 ==
    Obj(<<E("match", Obj(<<E("codecs", Arr(<<Str(EAC3), Str(TRUEHD)>>)),
                           E("channels", Arr(<<Str(<<"<", "=", "8">>), Str(<<">", "2">>)>>))>>)),
          E("operations", Arr(<<
              Obj(<<E("transcode", Obj(<<
                  E("codec", Str(AC3)),
                  E("filters", Str(<<"d", "y", "n", "a", "u", "d", "n", "o", "r", "m">>))>>))>>)>>))>>)
RuleCopyNotAac ==
    Obj(<<E("match", Obj(<<E("codecs", Str(<<"!">> \o AAC))>>)),
          E("operations", Arr(<<Obj(<<E("copy", Obj(<<>>))>>)>>))>>)
RuleDropAll ==
    Obj(<<E("match", Obj(<<E("codecs", Str(<<"*">>))>>)),
          E("operations", Arr(<<>>))>>)

RulePool == <<RuleDropComments, RuleLosslessToAac, RuleToAc3, RuleCopyNotAac, RuleDropAll>>

\* Rules the validator accepts although they are not of the documented shape
RuleBothKeys ==
    Obj(<<E("match", Obj(<<E("codecs", Str(<<"*">>))>>)),
          E("operations", Arr(<<
              Obj(<<E("copy", Obj(<<>>)),
                    E("transcode", Obj(<<E("codec", Str(AC3))>>))>>)>>))>>)
RuleMatchDispositionStrings ==
    Obj(<<E("match", Obj(<<E("codecs", Str(<<"*">>)),
                           E("dispositions", Obj(<<E("comment", Str(<<"1">>))>>))>>)),
          E("operations", Arr(<<>>))>>)
\* a title pattern written with doubled backslashes: \\. in the parsed text
RuleTitlePattern ==
    Obj(<<E("match", Obj(<<E("codecs", Str(<<"*">>)),
                           E("title", Obj(<<E("pattern", Str(<<"7", "\\", "\\", ".", "1">>)),
                                            E("caseSensitive", Bool(TRUE))>>))>>)),
          E("operations", Arr(<<Obj(<<E("copy", Obj(<<
              E("title", Str(<<"{", "i", "_", "c", "h", "a", "n", "n", "e", "l", "s",
                               "_", "f", "a", "n", "c", "y", "}">>))>>))>>)>>))>>)

\* a rule with the given match and no operation, a rule that matches every
\* track with the given operations
RuleMatching(match) == Obj(<<E("match", match), E("operations", Arr(<<>>))>>)
RuleDoing(operations) ==
    Obj(<<E("match", Obj(<<E("codecs", Str(<<"*">>))>>)), E("operations", operations)>>)

\* Rules and documents that are not of the documented shape
MalformedRules ==
    <<Num(5),
      Null,
      Obj(<<E("match", Obj(<<E("codecs", Str(<<"*">>))>>))>>),
      RuleMatching(Str(<<"*">>)),
      RuleMatching(Obj(<<>>)),
      RuleMatching(Obj(<<E("codecs", Str(AAC))>>)),
      RuleMatching(Obj(<<E("codecs", Num(3))>>)),
      RuleMatching(Obj(<<E("codecs", Str(<<"*">>)), E("channels", Num(6))>>)),
      RuleMatching(Obj(<<E("codecs", Str(<<"*">>)), E("dispositions", Str(<<"d">>))>>)),
      RuleMatching(Obj(<<E("codecs", Str(<<"*">>)), E("dispositions", Null)>>)),
      RuleMatching(Obj(<<E("codecs", Str(<<"*">>)),
                         E("title", Obj(<<E("caseSensitive", Bool(TRUE))>>))>>)),
      RuleDoing(Obj(<<>>)),
      RuleDoing(Arr(<<Obj(<<>>)>>)),
      RuleDoing(Arr(<<Obj(<<E("copy", Obj(<<>>))>>), Obj(<<E("name", Str(<<"x">>))>>)>>)),
      RuleDoing(Arr(<<Obj(<<E("transcode", Obj(<<>>))>>)>>)),
      RuleDoing(Arr(<<Obj(<<E("transcode", Obj(<<E("codec", Str(AC3)),
                                               E("channels", Str(<<"6">>))>>))>>)>>)),
      RuleDoing(Arr(<<Obj(<<E("copy", Obj(<<
          E("dispositions", Obj(<<E("default", Num(1))>>))>>))>>)>>))>>

\* the rules the documents of SpecValidate are made of
CheckedRulePool ==
    <<RuleLosslessToAac, RuleCopyNotAac, RuleDropAll,
      RuleBothKeys, RuleMatchDispositionStrings, RuleTitlePattern>> \o MalformedRules

\* every sequence of at most n indices into a pool of p elements
IndexLists(p, n) == UNION {[1..k -> 1..p] : k \in 0..n}

\* those of them that take no element of the pool twice
DistinctLists(p, n) ==
    {s \in IndexLists(p, n) : \A x, y \in DOMAIN s : x # y => s[x] # s[y]}

\* the audio tracks, then the subtitle streams, after one video stream, each
\* with its index in the file
StreamsOf(audio, subtitles) ==
    LET all == <<VideoStream>> \o audio \o subtitles
    IN  [x \in 1..Len(all) |->
            Obj(<<E("index", Num(x - 1))>> \o all[x].o)]

\* a file whose probe data carry the streams and the marker text
FileOf(audio, subtitles, marker) ==
    Obj(<<E("container", Str(<<"m", "k", "v">>)),
          E("ffProbeData", Obj(<<
              E("streams", Arr(StreamsOf(audio, subtitles))),
              E("format", Obj(<<E("tags", Obj(<<E("COPYRIGHT", Str(marker))>>))>>))>>))>>)

\* a file that was not probed
FileWithoutProbe == Obj(<<E("container", Str(<<"m", "k", "v">>))>>)

\* the JSON text of a document
JsonText(value) == [parses |-> TRUE, value |-> value]
NotJson == [parses |-> FALSE]

InputsOf(text, dryRun) ==
    Obj(<<E("transcodeRules", text), E("dryRun", Str(dryRun))>>)

\* marker text written by something else than this plugin
OtherText == [text |-> "(c) Studio"]

\* ------------------------------------------------------------------ plugin

NoResponse == [processFile |-> FALSE, preset |-> Undefined, infoLog |-> <<>>]
NoCall == [done |-> FALSE]

\* the locals of the plugin before line 398 runs
Locals ==
    /\ transcodeRules = Undefined
    /\ pluginWatermark = Undefined
    /\ copyrightData = <<>>
    /\ audioTracks = <<>>
    /\ audioTracksCommands = <<>>
    /\ inputTrackIndex = 0
    /\ outputTrackIndex = 0
    /\ requireTranscode = FALSE
    /\ executed = <<>>
    /\ response = NoResponse

\* the call has returned: its locals and its response are gone
LocalsDropped ==
    /\ transcodeRules' = Undefined
    /\ pluginWatermark' = Undefined
    /\ copyrightData' = <<>>
    /\ audioTracks' = <<>>
    /\ audioTracksCommands' = <<>>
    /\ inputTrackIndex' = 0
    /\ outputTrackIndex' = 0
    /\ requireTranscode' = FALSE
    /\ executed' = <<>>
    /\ response' = NoResponse

\* the outcome with the audio streams counted before the watermark is
\* looked for
EntryOutcome_AudioFirst(f, rules) ==
    LET probe == Prop(f, "ffProbeData")
    IN  IF rules.t = "string" THEN "invalid"
        ELSE IF btoa(JSONstringify(rules)).throws THEN "threw"
        ELSE IF ~Truthy(probe) \/ ~Truthy(Prop(probe, "streams")) THEN "noprobe"
        ELSE IF Len(StreamsOfType(Prop(probe, "streams").a, <<"a", "u", "d", "i", "o">>)) = 0
        THEN "noaudio"
        ELSE IF MarkerIncludes(CopyrightOf(f), Watermark(rules)) THEN "processed"
        ELSE "tracks"

\* the outcome of lines 395-429 on a file with the validated rules: which
\* return is taken, or "tracks" when the pass over the audio tracks begins
EntryOutcome(f, rules) ==
    LET probe == Prop(f, "ffProbeData")
    IN  IF rules.t = "string" THEN "invalid"
        ELSE IF btoa(JSONstringify(rules)).throws THEN "threw"
        ELSE IF ~Truthy(probe) \/ ~Truthy(Prop(probe, "streams")) THEN "noprobe"
        ELSE IF MarkerIncludes(CopyrightOf(f), Watermark(rules)) THEN "processed"
        ELSE IF Len(StreamsOfType(Prop(probe, "streams").a, <<"a", "u", "d", "i", "o">>)) = 0
        THEN "noaudio"
        ELSE "tracks"

EntryLog(outcome) ==
    <<[msg |-> "--- Starting Advanced Audio Tracks Transcode / Rename / Remove plugin"]>>
    \o CASE outcome = "invalid" -> <<[msg |-> "Invalid transcodeRules JSON"]>>
         [] outcome = "threw" -> <<>>
         [] outcome = "noprobe" ->
                <<[msg |-> "Checking for ffProbeData..."],
                  [msg |-> "Invalid file for processing, FFProbe data missing"]>>
         [] outcome = "processed" ->
                <<[msg |-> "Checking for ffProbeData..."],
                  [msg |-> "Plugin watermark found -> file already processed. Aborting."]>>
         [] outcome = "noaudio" ->
                <<[msg |-> "Checking for ffProbeData..."],
                  [msg |-> "FFProbeData present, extracting audio tracks data..."],
                  [msg |-> "No audio tracks, nothing to do"]>>
         [] OTHER ->
                <<[msg |-> "Checking for ffProbeData..."],
                  [msg |-> "FFProbeData present, extracting audio tracks data..."],
                  [msg |-> "audio tracks"]>>

\* lines 398-435 with the validated rules and the return they lead to
Enter(rules, outcome) ==
    /\ transcodeRules' = rules
    /\ pluginWatermark' = IF outcome \in {"invalid", "threw"} THEN Undefined
                          ELSE Watermark(rules)
    /\ copyrightData' = IF outcome \in {"invalid", "threw", "noprobe"} THEN <<>>
                        ELSE CopyrightOf(file)
    /\ audioTracks' = IF outcome \in {"noaudio", "tracks"}
                      THEN StreamsOfType(Prop(Prop(file, "ffProbeData"), "streams").a,
                                         <<"a", "u", "d", "i", "o">>)
                      ELSE <<>>
    /\ response' = [processFile |-> FALSE, preset |-> Undefined,
                    infoLog |-> EntryLog(outcome)]
    /\ pc' = CASE outcome = "tracks" -> "tracks"
               [] outcome = "threw" -> "threw"
               [] OTHER -> "done"

EnterWith(rules) == Enter(rules, EntryOutcome(file, rules))

\* lines 165-435: the plugin is called; it returns at once, throws, or
\* begins the pass over the audio tracks
PluginStart ==
    /\ pc = "start"
    /\ EnterWith(validateTranscodeRules(Prop(inputs, "transcodeRules")))
    /\ audioTracksCommands' = <<>>
    /\ inputTrackIndex' = 0
    /\ outputTrackIndex' = 0
    /\ requireTranscode' = FALSE
    /\ executed' = <<>>
    /\ UNCHANGED <<file, inputs, stamped, runs, call>>

\* the state of the pass is written back to the variables of the plugin
StorePass(st) ==
    /\ audioTracksCommands' = st.cmds
    /\ inputTrackIndex' = st.inIdx
    /\ outputTrackIndex' = st.outIdx
    /\ requireTranscode' = st.req
    /\ response' = [response EXCEPT !.infoLog = st.log]
    /\ executed' = st.executed

\* lines 437-547: one call of the callback of audioTracks.forEach; a TypeError
\* of trackMatches ends the plugin without a response
ProcessTrack ==
    /\ pc = "tracks"
    /\ inputTrackIndex < Len(audioTracks)
    /\ IF ScanThrows(audioTracks[inputTrackIndex + 1], transcodeRules.a, 0)
       THEN /\ pc' = "threw"
            /\ UNCHANGED <<audioTracksCommands, inputTrackIndex, outputTrackIndex,
                           requireTranscode, response, executed>>
       ELSE /\ StorePass(TrackStep(audioTracks[inputTrackIndex + 1], transcodeRules.a,
                           [cmds |-> audioTracksCommands, inIdx |-> inputTrackIndex,
                            outIdx |-> outputTrackIndex, req |-> requireTranscode,
                            log |-> response.infoLog, executed |-> executed]))
            /\ pc' = pc
    /\ UNCHANGED <<file, inputs, transcodeRules, pluginWatermark, copyrightData,
                   audioTracks, stamped, runs, call>>

\* lines 569-573: the preset of a changed plan
OrNoSubtitles(subtitleCommands) ==
    IF subtitleCommands = <<>> THEN <<[kind |-> "-sn"]>> ELSE subtitleCommands

PresetOf(f, cmds, marker, watermark) ==
    [t |-> "string",
     video |-> "-map 0:v -c:v copy",
     audio |-> cmds,
     subtitles |-> OrNoSubtitles(SubtitleCommands(
                       StreamsOfType(Prop(Prop(f, "ffProbeData"), "streams").a,
                                     <<"s", "u", "b", "t", "i", "t", "l", "e">>), 0)),
     copyright |-> marker \o <<watermark>>]

\* line 404
DryRun(in) == StrictEq(Prop(in, "dryRun"), Str(<<"t", "r", "u", "e">>))

\* a dry run that clears the preset before it logs it
Returned_LogsCleared(built) ==
    IF DryRun(inputs)
    THEN [processFile |-> FALSE,
          preset |-> Str(<<>>),
          infoLog |-> built.infoLog
              \o <<[msg |-> "DRY RUN MODE, no action will be performed"],
                   [msg |-> "Resulting ffmpeg command :", preset |-> Str(<<>>)]>>]
    ELSE built

\* lines 578-586: a dry run logs the preset and returns an unchanged plan
Returned(built) ==
    IF DryRun(inputs)
    THEN [processFile |-> FALSE,
          preset |-> Str(<<>>),
          infoLog |-> built.infoLog
              \o <<[msg |-> "DRY RUN MODE, no action will be performed"],
                   [msg |-> "Resulting ffmpeg command :", preset |-> built.preset]>>]
    ELSE built

\* lines 549-586: after the last track, the response is built and returned
BuildResponse ==
    /\ pc = "tracks"
    /\ inputTrackIndex = Len(audioTracks)
    /\ response' = Returned(
           IF requireTranscode
           THEN [response EXCEPT
                   !.processFile = TRUE,
                   !.preset = PresetOf(file, audioTracksCommands,
                                       copyrightData, pluginWatermark)]
           ELSE [response EXCEPT
                   !.infoLog = Append(@, [msg |-> "Nothing to convert."])])
    /\ pc' = "done"
    /\ UNCHANGED <<file, inputs, transcodeRules, pluginWatermark, copyrightData,
                   audioTracks, audioTracksCommands, inputTrackIndex, outputTrackIndex,
                   requireTranscode, executed, stamped, runs, call>>

\* ---------------------------------------------------------------- the host

\* The host applies the preset of a changed plan: the resulting file carries
\* the marker text of the preset, and whatever audio tracks came out
HostTranscodes ==
    /\ pc = "done"
    /\ response.processFile
    /\ \E a \in IndexLists(Len(TrackPool), 1) :
           file' = FileOf([x \in DOMAIN a |-> TrackPool[a[x]]], <<>>,
                          response.preset.copyright)
    /\ stamped' = Append(stamped, [document |-> Prop(inputs, "transcodeRules"),
                                   rules |-> transcodeRules])
    /\ pc' = "idle"
    /\ LocalsDropped
    /\ UNCHANGED <<inputs, runs, call>>

\* The host leaves the file as it is when the plugin asks for no processing
HostSkips ==
    /\ pc = "done"
    /\ ~response.processFile
    /\ pc' = "idle"
    /\ LocalsDropped
    /\ UNCHANGED <<file, inputs, stamped, runs, call>>

\* the rule documents of the runs the host queues on one file
RunDocuments ==
    {Arr(<<RuleLosslessToAac>>), Arr(<<RuleCopyNotAac>>), Arr(<<RuleToAc3, RuleCopyNotAac>>)}

\* The host queues the file again, with the rules of the library at that time
HostQueues ==
    /\ pc = "idle"
    /\ runs < MaxRuns
    /\ runs' = runs + 1
    /\ \E d \in RunDocuments, dry \in {<<"t", "r", "u", "e">>, <<"f", "a", "l", "s", "e">>} :
           inputs' = InputsOf(JsonText(d), dry)
    /\ pc' = "start"
    /\ UNCHANGED <<file, response, transcodeRules, pluginWatermark, copyrightData,
                   audioTracks, audioTracksCommands, inputTrackIndex, outputTrackIndex,
                   requireTranscode, executed, stamped, call>>

\* ---------------------------------------------------------- specifications

\* the lists of at most MaxTracks different tracks of the pool
TrackLists ==
    {[x \in DOMAIN a |-> TrackPool[a[x]]] : a \in DistinctLists(Len(TrackPool), MaxTracks)}

\* the documents of at most MaxRules different rules of the pool, every one
\* valid
RuleDocuments ==
    {Arr([x \in DOMAIN r |-> RulePool[r[x]]]) : r \in DistinctLists(Len(RulePool), MaxRules)}

\* One run of the plugin, on any file and any valid rule document
Init ==
    /\ pc = "start"
    /\ file \in {FileOf(a, s, <<>>) : a \in TrackLists,
                                       s \in {<<>>, <<SubtitleUnknown, SubtitleSrt>>}}
                \cup {FileWithoutProbe}
    /\ inputs \in {InputsOf(JsonText(d), dry) :
                      d \in RuleDocuments,
                      dry \in {<<"t", "r", "u", "e">>, <<"f", "a", "l", "s", "e">>}}
    /\ Locals
    /\ stamped = <<>>
    /\ runs = 1
    /\ call = NoCall

Next == PluginStart \/ ProcessTrack \/ BuildResponse

Spec == Init /\ [][Next]_vars

\* The runs of the plugin on one file that the host queues again and again
InitRuns ==
    /\ pc = "idle"
    /\ file \in {FileOf(<<TrackTrueHD, TrackEac3>>, <<SubtitleSrt>>, m) :
                    m \in {<<>>, <<OtherText>>}}
    /\ inputs = InputsOf(NotJson, <<"f", "a", "l", "s", "e">>)
    /\ Locals
    /\ stamped = <<>>
    /\ runs = 0
    /\ call = NoCall

NextRuns ==
    PluginStart \/ ProcessTrack \/ BuildResponse \/ HostTranscodes \/ HostSkips \/ HostQueues

SpecRuns == InitRuns /\ [][NextRuns]_vars

\* JSON texts whose root is no list, and texts that are no JSON
RootlessTexts ==
    {JsonText(Obj(<<>>)), JsonText(Null), JsonText(Str(<<"*">>)), JsonText(Num(0)), NotJson}

\* One run of the plugin on rule documents of any shape
CheckedDocuments ==
    {JsonText(Arr([x \in DOMAIN r |-> CheckedRulePool[r[x]]])) :
        r \in IndexLists(Len(CheckedRulePool), MaxBadRules)}
    \cup RootlessTexts

InitValidate ==
    /\ pc = "start"
    /\ file \in {FileOf(<<TrackTrueHD, TrackAacCommentary>>, <<SubtitleSrt>>, <<>>),
                 FileOf(<<TrackEac3>>, <<>>, <<OtherText>>)}
    /\ inputs \in {InputsOf(d, <<"f", "a", "l", "s", "e">>) : d \in CheckedDocuments}
    /\ Locals
    /\ stamped = <<>>
    /\ runs = 1
    /\ call = NoCall

SpecValidate == InitValidate /\ [][Next]_vars

\* Runs of the plugin on one audio track under one rule that matches every
\* track and holds a single transcode. The channel runs vary the source's
\* channel count and the channel count asked for; the bitrate runs vary the
\* source's bitrate and the bitrate asked for.
MaxChannels == 8

Field(key, value) == IF value = Undefined THEN <<>> ELSE <<E(key, value)>>

SourceTrack(codec, channels, bitRate) ==
    Obj(<<E("codec_type", Str(<<"a", "u", "d", "i", "o">>)),
          E("codec_name", Str(codec)),
          E("channels", Num(channels))>>
        \o Field("bit_rate", bitRate)
        \o <<E("disposition", Obj(<<E("default", Num(1))>>))>>)

TranscodeOf(codec, channels, bitrate) ==
    Obj(<<E("transcode",
            Obj(<<E("codec", Str(codec))>>
                \o Field("channels", channels)
                \o Field("bitrate", bitrate)))>>)

SourceCodecs == {AC3, EAC3, AAC}
TargetCodecs == {<<"c", "o", "p", "y">>, AC3, <<"A", "C", "3">>, <<"m", "p", "3">>,
                 AAC, <<"A", "A", "C">>}
ChannelCounts == {Undefined} \cup {Num(n) : n \in 0..MaxChannels}
Bitrates == {Undefined, Num(0), Num(128000), Num(320000), Num(640000), Num(768000)}

ChannelRuns ==
    {<<SourceTrack(s, n, Num(640000)), TranscodeOf(t, c, Undefined)>> :
        s \in SourceCodecs, n \in 1..MaxChannels, t \in TargetCodecs, c \in ChannelCounts}
BitrateRuns ==
    {<<SourceTrack(s, 6, b), TranscodeOf(t, Undefined, r)>> :
        s \in SourceCodecs, b \in Bitrates \ {Num(0)}, t \in TargetCodecs, r \in Bitrates}

\* the tags of the output that a title of the operation may hold
OutputTags ==
    {Tag(<<"o", "_", "c", "h", "a", "n", "n", "e", "l", "s">>),
     Tag(<<"o", "_", "c", "h", "a", "n", "n", "e", "l", "s", "_", "f", "a", "n", "c", "y">>),
     Tag(<<"o", "_", "b", "i", "t", "r", "a", "t", "e">>)}

\* the transcode with a title
Titled(operation, title) ==
    Obj(<<E("transcode",
            Obj(Prop(operation, "transcode").o \o <<E("title", Str(title))>>))>>)

TitledRuns ==
    {<<SourceTrack(EAC3, n, Num(768000)), Titled(TranscodeOf(t, c, r), g)>> :
        n \in {2, 6, MaxChannels},
        t \in {AC3, AAC, <<"m", "p", "3">>},
        c \in {Undefined, Num(2), Num(MaxChannels)},
        r \in {Undefined, Num(128000), Num(768000)},
        g \in OutputTags}

InitTranscode ==
    /\ pc = "start"
    /\ \E run \in ChannelRuns \cup BitrateRuns \cup TitledRuns :
          /\ file = FileOf(<<run[1]>>, <<>>, <<>>)
          /\ inputs = InputsOf(JsonText(Arr(<<RuleDoing(Arr(<<run[2]>>))>>)),
                               <<"f", "a", "l", "s", "e">>)
    /\ Locals
    /\ stamped = <<>>
    /\ runs = 1
    /\ call = NoCall

SpecTranscode == InitTranscode /\ [][Next]_vars

\* Runs of the plugin on files that lack probe data, a stream list or audio
\* streams, and on files whose marker text holds the watermark of the rules
\* of the run, under any valid rule document.
FileWithoutStreams ==
    Obj(<<E("container", Str(<<"m", "k", "v">>)), E("ffProbeData", Obj(<<>>))>>)

MarkersFor(d) ==
    {<<>>, <<OtherText>>, <<Watermark(d)>>, <<OtherText, Watermark(d)>>}

\* streams that are neither audio nor video: a subtitle whose codec ffprobe
\* names 'none', and an attached font
SubtitleNone ==
    Obj(<<E("codec_type", Str(<<"s", "u", "b", "t", "i", "t", "l", "e">>)),
          E("codec_name", Str(<<"n", "o", "n", "e">>))>>)
AttachedFont ==
    Obj(<<E("codec_type", Str(<<"a", "t", "t", "a", "c", "h", "m", "e", "n", "t">>)),
          E("codec_name", Str(<<"t", "t", "f">>))>>)

OtherStreamLists ==
    {<<>>, <<SubtitleSrt>>, <<SubtitleUnknown, SubtitleSrt>>, <<SubtitleNone>>,
     <<AttachedFont>>, <<SubtitleSrt, SubtitleNone, AttachedFont, SubtitleSrt>>}

InitEntry ==
    /\ pc = "start"
    /\ \E d \in RuleDocuments :
          /\ file \in {FileWithoutProbe, FileWithoutStreams}
                      \cup {FileOf(a, o, m) :
                               a \in {<<>>, <<TrackEac3>>, <<TrackAacCommentary, TrackAc3>>,
                                      <<TrackTrueHD, TrackAacCommentary>>},
                               o \in OtherStreamLists,
                               m \in MarkersFor(d)}
          /\ inputs \in {InputsOf(JsonText(d), dry) :
                            dry \in {<<"t", "r", "u", "e">>, <<"f", "a", "l", "s", "e">>}}
    /\ Locals
    /\ stamped = <<>>
    /\ runs = 1
    /\ call = NoCall

SpecEntry == InitEntry /\ [][Next]_vars

\* Runs of the plugin under rule documents that hold what the validator does
\* not look at: the elements of the lists of a match spec, and the
\* characters of the strings.
Copying(match) ==
    Obj(<<E("match", match), E("operations", Arr(<<Obj(<<E("copy", Obj(<<>>))>>)>>))>>)

OddRules ==
    <<Copying(Obj(<<E("codecs", Str(<<"*">>)), E("channels", Arr(<<Num(6)>>))>>)),
      Copying(Obj(<<E("codecs", Str(<<"*">>)),
                    E("channels", Arr(<<Str(<<"<", "2">>), Num(6)>>))>>)),
      Copying(Obj(<<E("codecs", Arr(<<Str(EAC3)>>)),
                    E("bitrate", Arr(<<Str(<<">", "1">>), Null>>))>>)),
      Copying(Obj(<<E("codecs", Arr(<<Num(3), Str(AC3)>>))>>)),
      Copying(Obj(<<E("codecs", Str(<<"*">>)), E("languages", Arr(<<Num(1)>>))>>)),
      Obj(<<E("name", Str(<<"5", ".", "1", DoublePrime>>)),
            E("match", Obj(<<E("codecs", Arr(<<Str(AAC)>>))>>)),
            E("operations", Arr(<<>>))>>),
      RuleCopyNotAac>>

InitAccepted ==
    /\ pc = "start"
    /\ file \in {FileOf(<<TrackEac3>>, <<>>, <<>>),
                 FileOf(<<TrackAacCommentary, TrackAc3>>, <<SubtitleSrt>>, <<>>),
                 FileOf(<<TrackAc3, TrackEac3>>, <<>>, <<OtherText>>)}
    /\ inputs \in {InputsOf(JsonText(Arr([x \in DOMAIN r |-> OddRules[r[x]]])), dry) :
                      r \in DistinctLists(Len(OddRules), MaxRules),
                      dry \in {<<"t", "r", "u", "e">>, <<"f", "a", "l", "s", "e">>}}
    /\ Locals
    /\ stamped = <<>>
    /\ runs = 1
    /\ call = NoCall

SpecAccepted == InitAccepted /\ [][Next]_vars

\* ------------------------------------------- add_transcoded_audio_tracks.js

\* The second plugin of the repository. Its run keeps its state in variables
\* of the same kind as the first plugin: file, inputs, response,
\* pluginWatermark, copyrightData, audioTracks, audioTracksCommands and
\* requireTranscode stand for its variables of the same names,
\* inputTrackIndex for inputAudioTrackIndex and outputTrackIndex for
\* outputAudioTrackIndex. pc is "add" at the call, "adding" during the pass
\* over the audio tracks, "added" at the return.
MaxAdded == 3

\* s.split(sep) for a separator of one character
RECURSIVE split(_, _)
split(s, sep) ==
    IF \A i \in 1..Len(s) : s[i] # sep THEN <<s>>
    ELSE LET i == CHOOSE k \in 1..Len(s) :
                      s[k] = sep /\ \A j \in 1..(k - 1) : s[j] # sep
         IN  <<SubSeq(s, 1, i - 1)>> \o split(SubSeq(s, i + 1, Len(s)), sep)

\* s.trim()
trim(s) ==
    LET i == SkipWhiteSpace(s, 1)
        j == TrimEnd(s, Len(s))
    IN  IF i > j THEN <<>> ELSE SubSeq(s, i, j)

\* a.join(sep)
RECURSIVE join(_, _)
join(a, sep) ==
    IF Len(a) = 0 THEN <<>>
    ELSE IF Len(a) = 1 THEN a[1]
    ELSE a[1] \o sep \o join(Tail(a), sep)

\* a > b of two values
Above(a, b) ==
    LET x == ToNumber(a)
        y == ToNumber(b)
    IN  ~IsNaN(x) /\ ~IsNaN(y) /\ x.n > y.n

\* line 117
codecsToConvert ==
    LET parts == split(Prop(inputs, "codecsToConvert").s, ",")
    IN  [i \in DOMAIN parts |-> toLowerCase(trim(parts[i]))]

\* line 118
targetCodec ==
    IF StrictEq(Prop(inputs, "targetCodec"), Str(<<"c", "u", "s", "t", "o", "m">>))
    THEN Prop(inputs, "customTargetCodec")
    ELSE Prop(inputs, "targetCodec")

\* lines 119-121
maxChannels == Prop(inputs, "maxChannels")

maxBitrate == Prop(inputs, "maxBitrate")

losslessDefaultBitrate == Prop(inputs, "losslessDefaultBitrate")

\* line 122
overwriteTrack == StrictEq(Prop(inputs, "overwriteTrack"), Str(<<"t", "r", "u", "e">>))

\* line 124: one piece of marker text, as the watermark of the first plugin
AddWatermark ==
    [plugin |-> "Tdarr:add_transcoded_audio_tracks",
     version |-> "1.0",
     codecs |-> join(codecsToConvert, <<"|">>),
     target |-> ToStringJs(targetCodec)]

\* lines 127-134: the limits of this plugin, undefined for the other codecs
AddChannelsLimit(codec) ==
    IF codec = Str(AC3) THEN Num(6)
    ELSE IF codec = Str(<<"m", "p", "3">>) THEN Num(2)
    ELSE Undefined

AddBitrateLimit(codec) ==
    IF codec = Str(AC3) THEN Num(640000)
    ELSE IF codec = Str(<<"m", "p", "3">>) THEN Num(320000)
    ELSE Undefined

\* lines 136-157: which return is taken, or "adding" when the pass begins
AddOutcome(f) ==
    LET probe == Prop(f, "ffProbeData")
    IN  IF ~Truthy(probe) \/ ~Truthy(Prop(probe, "streams")) THEN "noprobe"
        ELSE IF MarkerIncludes(CopyrightOf(f), AddWatermark) THEN "processed"
        ELSE IF Len(StreamsOfType(Prop(probe, "streams").a, <<"a", "u", "d", "i", "o">>)) = 0
        THEN "noaudio"
        ELSE "adding"

AddLog(outcome) ==
    <<[msg |-> "--- Starting Add Transcoded Audio Tracks plugin"],
      [msg |-> "Checking for ffProbeData..."]>>
    \o CASE outcome = "noprobe" ->
                <<[msg |-> "Invalid file for processing, FFProbe data missing"]>>
         [] outcome = "processed" ->
                <<[msg |-> "Plugin watermark found -> file already processed. Aborting."]>>
         [] outcome = "noaudio" ->
                <<[msg |-> "FFProbeData present, extracting audio tracks data..."],
                  [msg |-> "No audio tracks, nothing to do"]>>
         [] OTHER ->
                <<[msg |-> "FFProbeData present, extracting audio tracks data..."],
                  [msg |-> "audio tracks"]>>

\* lines 96-163: the plugin is called; it returns at once or begins the pass
AddStart ==
    /\ pc = "add"
    /\ LET outcome == AddOutcome(file)
       IN  /\ pluginWatermark' = AddWatermark
           /\ copyrightData' = IF outcome = "noprobe" THEN <<>> ELSE CopyrightOf(file)
           /\ audioTracks' = IF outcome \in {"noaudio", "adding"}
                             THEN StreamsOfType(Prop(Prop(file, "ffProbeData"), "streams").a,
                                                <<"a", "u", "d", "i", "o">>)
                             ELSE <<>>
           /\ response' = [processFile |-> FALSE, preset |-> Undefined,
                           infoLog |-> AddLog(outcome)]
           /\ pc' = IF outcome = "adding" THEN "adding" ELSE "added"
    /\ audioTracksCommands' = <<>>
    /\ inputTrackIndex' = -1
    /\ outputTrackIndex' = -1
    /\ requireTranscode' = FALSE
    /\ UNCHANGED <<file, inputs, transcodeRules, executed, stamped, runs, call>>

\* `${bitrate/1000}`: the thousandths, without the zeros at their end
KbpsText(bitrate) ==
    LET n == ToNumber(bitrate)
        m == IF n.n < 0 THEN -n.n ELSE n.n
        r == m % 1000
        thousandths == <<Digits[(r \div 100) + 1], Digits[((r \div 10) % 10) + 1],
                         Digits[(r % 10) + 1]>>
        kept == IF r % 10 # 0 THEN 3 ELSE IF r % 100 # 0 THEN 2 ELSE 1
    IN  IF IsNaN(n) THEN <<"N", "a", "N">>
        ELSE (IF n.n < 0 THEN <<"-">> ELSE <<>>) \o NatToString(m \div 1000)
             \o (IF r = 0 THEN <<>> ELSE <<".">> \o SubSeq(thousandths, 1, kept))

\* lines 179-186: a value is lowered to the limit of the target codec
CodecLimited(value, limit) ==
    IF Truthy(limit) /\ Above(value, limit) THEN limit ELSE value

\* lines 189-196: a value is lowered to the limit of the user, when positive
UserLimited(value, max) ==
    IF Above(max, Num(0)) /\ Above(value, max) THEN max ELSE value

\* line 174
AddedBitrate(ownRate) ==
    UserLimited(CodecLimited(IF Truthy(ownRate) THEN parseInt(ToStringJs(ownRate))
                             ELSE losslessDefaultBitrate,
                             AddBitrateLimit(targetCodec)),
                maxBitrate)

\* line 175
AddedChannels(own) ==
    UserLimited(CodecLimited(IF Truthy(own) THEN own ELSE Num(2),
                             AddChannelsLimit(targetCodec)),
                maxChannels)

\* line 176
AddedLanguage(tags) ==
    IF Truthy(tags) /\ Truthy(Prop(tags, "language"))
    THEN Prop(tags, "language").s ELSE <<"u", "n", "d">>

\* line 199
AddedTitle(tags, lang, channels, bitrate) ==
    (IF Truthy(tags) /\ Truthy(Prop(tags, "title"))
     THEN ToStringJs(Prop(tags, "title")) \o <<" ", "-", ">", " ">>
     ELSE toUpperCase(lang) \o <<" ">>)
    \o toUpperCase(ToStringJs(targetCodec)) \o <<" ">>
    \o ToStringJs(channels) \o <<"c", "h", " ">>
    \o KbpsText(bitrate) \o <<"k", "b", "p", "s", " ", "[", "A", "u", "t", "o", "]">>

\* line 169
IsToConvert(track) ==
    \E i \in DOMAIN codecsToConvert :
        codecsToConvert[i] = toLowerCase(Prop(track, "codec_name").s)

\* the output index of the transcoded version were it never stepped
AddedOutputIndex_NoStep(outIdx) == outIdx

\* lines 202-206: the output index of the transcoded version, one further
\* when the original is copied before it
AddedOutputIndex(outIdx) ==
    IF overwriteTrack THEN outIdx ELSE outIdx + 1

\* lines 202-215: the commands of a track to convert
AddedCommands(inIdx, outIdx, newIdx, lang, channels, bitrate, tags) ==
    (IF ~overwriteTrack
     THEN <<[kind |-> "-map -c copy", in |-> inIdx, out |-> outIdx]>>
     ELSE <<>>)
    \o <<[kind |-> "-map", in |-> inIdx],
         [kind |-> "-c", out |-> newIdx, codec |-> targetCodec],
         [kind |-> "-b", out |-> newIdx, bitrate |-> bitrate],
         [kind |-> "-ac", out |-> newIdx, channels |-> channels],
         [kind |-> "-metadata language", out |-> newIdx, language |-> lang],
         [kind |-> "-metadata title", out |-> newIdx,
          title |-> AddedTitle(tags, lang, channels, bitrate)]>>

\* lines 165-220 with the two indices already stepped (lines 165-166)
AddTrackAt(st, track, inIdx, outIdx) ==
    IF IsToConvert(track)
    THEN [inIdx |-> inIdx, outIdx |-> AddedOutputIndex(outIdx), requireTranscode |-> TRUE,
          cmds |-> st.cmds \o AddedCommands(inIdx, outIdx, AddedOutputIndex(outIdx),
                                            AddedLanguage(Prop(track, "tags")),
                                            AddedChannels(Prop(track, "channels")),
                                            AddedBitrate(Prop(track, "bit_rate")),
                                            Prop(track, "tags"))]
    ELSE [inIdx |-> inIdx, outIdx |-> outIdx, requireTranscode |-> st.requireTranscode,
          cmds |-> Append(st.cmds, [kind |-> "-map -c copy", in |-> inIdx, out |-> outIdx])]

\* lines 164-221: the callback of the forEach on one track
AddTrackStep(st, track) == AddTrackAt(st, track, st.inIdx + 1, st.outIdx + 1)

\* one call of the callback of line 164
AddTrack ==
    /\ pc = "adding"
    /\ inputTrackIndex + 1 < Len(audioTracks)
    /\ LET st == AddTrackStep([inIdx |-> inputTrackIndex, outIdx |-> outputTrackIndex,
                               requireTranscode |-> requireTranscode,
                               cmds |-> audioTracksCommands],
                              audioTracks[inputTrackIndex + 2])
       IN  /\ inputTrackIndex' = st.inIdx
           /\ outputTrackIndex' = st.outIdx
           /\ requireTranscode' = st.requireTranscode
           /\ audioTracksCommands' = st.cmds
    /\ UNCHANGED <<file, inputs, pc, response, transcodeRules, pluginWatermark,
                   copyrightData, audioTracks, executed, stamped, runs, call>>

\* lines 223-253: the preset of a changed plan, and the return
AddResponse ==
    /\ pc = "adding"
    /\ inputTrackIndex + 1 = Len(audioTracks)
    /\ response' =
           IF requireTranscode
           THEN [response EXCEPT
                   !.processFile = TRUE,
                   !.preset = [t |-> "string",
                               video |-> "-map 0:v -c:v copy",
                               audio |-> audioTracksCommands,
                               subtitles |-> OrNoSubtitles(SubtitleCommands(
                                   StreamsOfType(Prop(Prop(file, "ffProbeData"), "streams").a,
                                                 <<"s", "u", "b", "t", "i", "t", "l", "e">>), 0)),
                               copyright |-> copyrightData \o <<pluginWatermark>>]]
           ELSE [response EXCEPT
                   !.infoLog = Append(@, [msg |-> "Nothing to convert."])]
    /\ pc' = "added"
    /\ UNCHANGED <<file, inputs, transcodeRules, pluginWatermark, copyrightData,
                   audioTracks, audioTracksCommands, inputTrackIndex, outputTrackIndex,
                   requireTranscode, executed, stamped, runs, call>>

\* the inputs of the second plugin, as the host hands them over
AddInputsOf(codecs, target, custom, channels, overwrite) ==
    Obj(<<E("codecsToConvert", Str(codecs)),
          E("targetCodec", Str(target)),
          E("customTargetCodec", Str(custom)),
          E("maxChannels", Num(channels)),
          E("maxBitrate", Num(-1)),
          E("losslessDefaultBitrate", Num(640000)),
          E("overwriteTrack", Str(overwrite))>>)

\* every list of at most MaxAdded tracks of the pool, a track may repeat
AddTrackLists ==
    {[x \in DOMAIN a |-> TrackPool[a[x]]] : a \in IndexLists(Len(TrackPool), MaxAdded)}

\* One run of the second plugin
InitAdd ==
    /\ pc = "add"
    /\ file \in {FileOf(a, <<SubtitleSrt>>, <<>>) : a \in AddTrackLists}
                \cup {FileWithoutProbe}
    /\ inputs \in {AddInputsOf(c, t[1], t[2], ch, o) :
                      c \in {<<"t", "r", "u", "e", "h", "d", ",", " ", "E", "A", "C", "3">>,
                             <<"a", "a", "c">>,
                             <<"d", "t", "s">>},
                      t \in {<<AC3, <<>>>>, <<<<"c", "u", "s", "t", "o", "m">>, AAC>>},
                      ch \in {-1, 2},
                      o \in {<<"t", "r", "u", "e">>, <<"f", "a", "l", "s", "e">>}}
    /\ Locals
    /\ stamped = <<>>
    /\ runs = 1
    /\ call = NoCall

NextAdd == AddStart \/ AddTrack \/ AddResponse

SpecAdd == InitAdd /\ [][NextAdd]_vars

\* Calls of the matcher on a numeric field. A condition is an operator and an
\* integer, written as the rule document writes it
Comparisons == {<<"<", "=">>, <<">", "=">>, <<"<">>, <<">">>, <<>>}

ConditionString(c) == Str(c.op \o IntToString(c.n))

ConditionsOver(ns) == [op : Comparisons, n : ns]

\* a track whose field carries the value (bit_rate is the field of bitrate)
TrackWith(field, value) ==
    Obj(<<E("codec_type", Str(<<"a", "u", "d", "i", "o">>)),
          E("codec_name", Str(AC3)),
          E(IF field = "bitrate" THEN "bit_rate" ELSE field, Num(value)),
          E("disposition", Obj(<<>>))>>)

\* a match spec whose field lists the conditions: one string, or an array
MatchWith(field, shape, conditions) ==
    Obj(<<E("codecs", Str(<<"*">>)),
          E(field, IF shape = "string" THEN ConditionString(conditions[1])
                   ELSE Arr([x \in DOMAIN conditions |-> ConditionString(conditions[x])]))>>)

InitMatch ==
    /\ pc = "call"
    /\ call \in [done : {FALSE}, result : {FALSE},
                 field : {"channels", "bitrate"},
                 value : -1..MaxValue,
                 shape : {"string", "array"},
                 conditions : {<<c>> : c \in ConditionsOver(-1..MaxValue)}]
          \cup [done : {FALSE}, result : {FALSE},
                field : {"channels", "bitrate"},
                value : -1..MaxValue,
                shape : {"array"},
                conditions : UNION {[1..k -> ConditionsOver({2, 6})] :
                                       k \in 0..MaxConditions}]
    /\ file = FileWithoutProbe
    /\ inputs = InputsOf(NotJson, <<"f", "a", "l", "s", "e">>)
    /\ Locals
    /\ stamped = <<>>
    /\ runs = 0

\* trackMatches is called on the track and the match spec
CallTrackMatches ==
    /\ pc = "call"
    /\ ~call.done
    /\ call' = [call EXCEPT
                  !.done = TRUE,
                  !.result = trackMatches(TrackWith(call.field, call.value),
                                          MatchWith(call.field, call.shape, call.conditions))]
    /\ UNCHANGED <<file, inputs, pc, response, transcodeRules, pluginWatermark,
                   copyrightData, audioTracks, audioTracksCommands, inputTrackIndex,
                   outputTrackIndex, requireTranscode, executed, stamped, runs>>

NextMatch == CallTrackMatches

SpecMatch == InitMatch /\ [][NextMatch]_vars

\* ------------------------------------------------- calls of the functions

\* Calls of trackMatches, getDispositionFlags and getNewTrackTitle on
\* arguments drawn from pools; a call record names the function, holds the
\* arguments and, once the call is done, the result

\* codec names as ffprobe and rule documents may write them
CodecNamePool ==
    <<AAC, <<"A", "A", "C">>, AC3, <<"A", "c", "3">>, EAC3>>

\* the codecs field of a match spec: the wildcard, a negated codec, a list
CodecSpecPool ==
    <<Str(<<"*">>),
      Str(<<"!">> \o AAC),
      Str(<<"!", "A", "A", "C">>),
      Str(<<"!">> \o AC3),
      Arr(<<>>),
      Arr(<<Str(AAC)>>),
      Arr(<<Str(<<"A", "A", "C">>)>>),
      Arr(<<Str(AC3), Str(EAC3)>>),
      Arr(<<Str(<<"A", "c", "3">>), Str(AAC)>>)>>

FlagNames == <<"default", "comment", "forced", "dub">>

\* the disposition objects of tracks, as ffprobe writes them
TrackDispositionPool ==
    <<Obj(<<E("default", Num(1)), E("comment", Num(0)), E("forced", Num(0))>>),
      Obj(<<E("default", Num(0)), E("comment", Num(1))>>),
      Obj(<<>>)>>

\* the values a rule document may give to a flag of match.dispositions
WantedValues == <<Num(1), Num(0), Str(<<"1">>), Bool(TRUE)>>

\* the objects of at most MaxFlags different flags with values of the pool
FlagObjects(values) ==
    {Obj([x \in DOMAIN ks |-> E(FlagNames[ks[x]], values[vs[x]])]) :
        <<ks, vs>> \in UNION {DistinctLists(Len(FlagNames), n) \X [1..n -> 1..Len(values)] :
                                 n \in 0..MaxFlags}}

\* an audio track of the given codec, disposition and tags
TrackOf(codec, disposition, tags) ==
    Obj(<<E("index", Num(1)),
          E("codec_type", Str(<<"a", "u", "d", "i", "o">>)),
          E("codec_name", Str(codec)),
          E("channels", Num(2)),
          E("disposition", disposition),
          E("tags", tags)>>)

CallOf(fn, family, args) ==
    [fn |-> fn, family |-> family, args |-> args, done |-> FALSE, result |-> <<>>]

CodecCalls ==
    {CallOf("trackMatches", "codecs",
            <<TrackOf(CodecNamePool[c], Obj(<<>>), Obj(<<>>)),
              Obj(<<E("codecs", CodecSpecPool[m])>>)>>) :
        c \in DOMAIN CodecNamePool, m \in DOMAIN CodecSpecPool}

DispositionCalls ==
    {CallOf("trackMatches", "dispositions",
            <<TrackOf(AC3, TrackDispositionPool[d], Obj(<<>>)), m>>) :
        d \in DOMAIN TrackDispositionPool,
        m \in {Obj(<<E("codecs", Str(<<"*">>))>>)}
              \cup {Obj(<<E("codecs", Str(<<"*">>)), E("dispositions", w)>>) :
                       w \in FlagObjects(WantedValues)}}

\* track titles, with letters of either case, a comma and a double quote
TitlePool ==
    <<<<"A", "b">>, <<"a", "b">>, <<"a", ",", "B", "\"", "a", "b">>,
      <<"A", "b", "C", "b">>>>

\* the tags of tracks: without title and language, and with them
TagsPool ==
    <<Obj(<<>>)>>
    \o [x \in DOMAIN TitlePool |->
           Obj(<<E("title", Str(TitlePool[x])),
                 E("language", Str(IF x = 3 THEN <<"e", ",", "\"">> ELSE ENG))>>)]

PatternPool ==
    <<<<"a", "b">>, <<"A", "b">>, <<"(", "a", ")", "b">>, <<"a", ".">>,
      <<"(", ".", ")", "(", ",", ")">>, <<"(", ".", ")", "b">>>>

\* the title field of a match spec, with and without caseSensitive
MatchTitles ==
    {Obj(<<E("pattern", Str(PatternPool[x]))>>) : x \in DOMAIN PatternPool}
    \cup {Obj(<<E("pattern", Str(PatternPool[x])), E("caseSensitive", Bool(b))>>) :
             x \in DOMAIN PatternPool, b \in BOOLEAN}

TitleCalls ==
    {CallOf("trackMatches", "title",
            <<TrackOf(AC3, Obj(<<>>), TagsPool[g]),
              Obj(<<E("codecs", Str(<<"*">>)), E("title", m)>>)>>) :
        g \in DOMAIN TagsPool, m \in MatchTitles}

\* title templates: with the tags of capture groups, with tags of the track
\* between commas and quotes, and without any tag
TemplatePool ==
    <<<<"{", "1", "}">>,
      <<"{", "L", "A", "N", "G", "}", "{", "2", "}", "{", "1", "}">>,
      <<"{", "t", "i", "t", "l", "e", "}", ",", "{", "l", "a", "n", "g", "}", "\"",
        "{", "i", "_", "c", "o", "d", "e", "c", "}">>,
      <<"{", "i", "_", "c", "h", "a", "n", "n", "e", "l", "_", "l", "a", "y", "o", "u", "t",
        "}", "{", "o", "_", "C", "O", "D", "E", "C", "}">>,
      <<"a", ",", "b", "\"", "c">>>>

\* a track whose codec name and channel layout hold a comma and a quote
OddTrack(tags) ==
    Obj(<<E("index", Num(1)),
          E("codec_type", Str(<<"a", "u", "d", "i", "o">>)),
          E("codec_name", Str(<<"p", "c", "m", ",", "\"">>)),
          E("channels", Num(6)),
          E("channel_layout", Str(<<"5", ".", "1", ",", "\"">>)),
          E("bit_rate", Num(640000)),
          E("disposition", Obj(<<>>)),
          E("tags", tags)>>)

\* the body of a copy and of a transcode operation with the title template
TitledBodies(template) ==
    {Obj(<<E("title", Str(template))>>),
     Obj(<<E("codec", Str(<<"a", ",", "c">>)), E("title", Str(template))>>)}

TemplateCalls ==
    {CallOf("getNewTrackTitle", "template", <<OddTrack(TagsPool[g]), m, o, Undefined>>) :
        g \in DOMAIN TagsPool,
        m \in {Undefined} \cup MatchTitles,
        o \in UNION {TitledBodies(TemplatePool[x]) : x \in DOMAIN TemplatePool}}

\* the mappings of flags to booleans an operation may carry
FlagCalls ==
    {CallOf("getDispositionFlags", "flags", <<d>>) :
        d \in FlagObjects(<<Bool(TRUE), Bool(FALSE)>>)}

InitCalls ==
    /\ pc = "call"
    /\ call \in CodecCalls \cup DispositionCalls \cup TitleCalls \cup TemplateCalls
                \cup FlagCalls
    /\ file = FileWithoutProbe
    /\ inputs = InputsOf(NotJson, <<"f", "a", "l", "s", "e">>)
    /\ Locals
    /\ stamped = <<>>
    /\ runs = 0

Returns(result) ==
    /\ call' = [call EXCEPT !.done = TRUE, !.result = result]
    /\ UNCHANGED <<file, inputs, pc, response, transcodeRules, pluginWatermark,
                   copyrightData, audioTracks, audioTracksCommands, inputTrackIndex,
                   outputTrackIndex, requireTranscode, executed, stamped, runs>>

\* trackMatches(trackData, matchRule)
TestTrack ==
    /\ pc = "call"
    /\ ~call.done
    /\ call.fn = "trackMatches"
    /\ Returns(trackMatches(call.args[1], call.args[2]))

\* getNewTrackTitle(track, matchTitle, operation, bitrate)
FormatTitle ==
    /\ pc = "call"
    /\ ~call.done
    /\ call.fn = "getNewTrackTitle"
    /\ Returns(getNewTrackTitle(call.args[1], call.args[2], call.args[3], call.args[4]))

\* getDispositionFlags(dispositions)
EncodeFlags ==
    /\ pc = "call"
    /\ ~call.done
    /\ call.fn = "getDispositionFlags"
    /\ Returns(getDispositionFlags(call.args[1]))

NextCalls == TestTrack \/ FormatTitle \/ EncodeFlags

SpecCalls == InitCalls /\ [][NextCalls]_vars

\* ------------------------------------------------- rule precedence, removal

\* the 0-based positions of the rules whose match spec the track passes
MatchingRules(track, rules) ==
    {i \in 0..(Len(rules) - 1) : trackMatches(track, Prop(rules[i + 1], "match"))}

Least(S) == CHOOSE x \in S : \A y \in S : x <= y

\* the position of the first rule that matches the track, -1 without one
FirstMatch(track, rules) ==
    IF MatchingRules(track, rules) = {} THEN -1 ELSE Least(MatchingRules(track, rules))

OperationsAt(rules, i) == Prop(rules[i + 1], "operations").a

\* the calls of the operation callback that first-match asks for on track k
CallsAsked(k, i, rules) ==
    IF i < 0 THEN <<>> ELSE [j \in 1..Len(OperationsAt(rules, i)) |-> <<k, i, j - 1>>]

\* the output tracks that first-match asks for on a track: one per operation,
\* one copy without a matching rule
OutputsAsked(i, rules) == IF i < 0 THEN 1 ELSE Len(OperationsAt(rules, i))

IsMapping(command) == command.kind \in {"-map", "-map -c copy"}

CallsOn(k) == SelectSeq(executed, LAMBDA e : e[1] = k)

MappingsOf(k) == Len(SelectSeq(audioTracksCommands, LAMBDA c : IsMapping(c) /\ c.in = k))

FirstMatchServed(k, i, rules) ==
    /\ CallsOn(k) = CallsAsked(k, i, rules)
    /\ MappingsOf(k) = OutputsAsked(i, rules)

PassBegun == pc \in {"tracks", "done"} /\ transcodeRules.t = "array"

\* C1: every track the pass has handled was served by the first rule, in
\* document order, whose match spec it passes, and by no other: the operation
\* callback ran on it for exactly the operations of that rule, in their order,
\* and the track is mapped once per operation of that rule
C1_FirstMatchWins ==
    PassBegun =>
        \A k \in 0..(inputTrackIndex - 1) :
            FirstMatchServed(k, FirstMatch(audioTracks[k + 1], transcodeRules.a),
                             transcodeRules.a)

\* a handled track that two rules match, both with operations
C1_Witness ==
    /\ pc = "done"
    /\ transcodeRules.t = "array"
    /\ \E k \in 0..(inputTrackIndex - 1) :
         /\ Cardinality(MatchingRules(audioTracks[k + 1], transcodeRules.a)) >= 2
         /\ \A i \in MatchingRules(audioTracks[k + 1], transcodeRules.a) :
                Len(OperationsAt(transcodeRules.a, i)) > 0
         /\ CallsOn(k) # <<>>

\* the first matching rule has no operation
RemovedAt(i, rules) == i >= 0 /\ Len(OperationsAt(rules, i)) = 0
IsRemoved(track, rules) == RemovedAt(FirstMatch(track, rules), rules)

\* the output tracks of a command list, each as <<input index, output index>>;
\* the output index of a transcode follows its -map, in the -c command
OutputsOf(cmds) ==
    LET at == SelectSeq([x \in DOMAIN cmds |-> x], LAMBDA x : IsMapping(cmds[x]))
    IN  [y \in DOMAIN at |->
            IF cmds[at[y]].kind = "-map" THEN <<cmds[at[y]].in, cmds[at[y] + 1].out>>
            ELSE <<cmds[at[y]].in, cmds[at[y]].out>>]

Without(tracks, k) == [x \in 1..(Len(tracks) - 1) |-> IF x < k THEN tracks[x] ELSE tracks[x + 1]]

\* output tracks of a list without its track k, told by the input positions
\* of the list with it
PutBack(outputs, k) ==
    [y \in DOMAIN outputs |->
        <<IF outputs[y][1] >= k - 1 THEN outputs[y][1] + 1 ELSE outputs[y][1], outputs[y][2]>>]

PassStart ==
    [cmds |-> <<>>, inIdx |-> 0, outIdx |-> 0, req |-> FALSE, log |-> <<>>, executed |-> <<>>]

PassOver == PassBegun /\ inputTrackIndex = Len(audioTracks)

\* C2: the step on a track whose first matching rule has an empty operation
\* list emits no command and takes no output index, while the input index
\* advances by one; and when the pass is over, the output tracks are numbered
\* as the pass numbers them on the track list without that track
C2_RemovedTrack ==
    /\ [][(pc = "tracks" /\ inputTrackIndex < Len(audioTracks)
             /\ IsRemoved(audioTracks[inputTrackIndex + 1], transcodeRules.a))
          => /\ audioTracksCommands' = audioTracksCommands
             /\ outputTrackIndex' = outputTrackIndex
             /\ inputTrackIndex' = inputTrackIndex + 1]_vars
    /\ [](PassOver =>
            \A k \in 1..Len(audioTracks) :
                IsRemoved(audioTracks[k], transcodeRules.a) =>
                    OutputsOf(audioTracksCommands)
                      = PutBack(OutputsOf(RunPass(Without(audioTracks, k),
                                                  transcodeRules.a, PassStart).cmds), k))

\* a removed track followed by a track that reaches the output
C2_Witness ==
    /\ pc = "done"
    /\ PassOver
    /\ \E k \in 1..Len(audioTracks) :
         /\ IsRemoved(audioTracks[k], transcodeRules.a)
         /\ \E y \in DOMAIN OutputsOf(audioTracksCommands) :
                OutputsOf(audioTracksCommands)[y][1] > k - 1

\* C3: the step on a track that no rule matches appends one command, the
\* mapping of the stream under the current input index copied under the
\* current output index, and nothing else; both indices advance by one
C3_UnmatchedCopied ==
    [][(pc = "tracks" /\ inputTrackIndex < Len(audioTracks)
          /\ FirstMatch(audioTracks[inputTrackIndex + 1], transcodeRules.a) < 0)
       => /\ audioTracksCommands'
               = Append(audioTracksCommands,
                        [kind |-> "-map -c copy", in |-> inputTrackIndex,
                         out |-> outputTrackIndex])
          /\ outputTrackIndex' = outputTrackIndex + 1
          /\ inputTrackIndex' = inputTrackIndex + 1]_vars

\* an unmatched track copied under an output index that is not its input index
C3_Witness ==
    /\ PassBegun
    /\ \E k \in 0..(inputTrackIndex - 1) :
         /\ FirstMatch(audioTracks[k + 1], transcodeRules.a) < 0
         /\ \E x \in DOMAIN audioTracksCommands :
              /\ audioTracksCommands[x].kind = "-map -c copy"
              /\ audioTracksCommands[x].in = k
              /\ audioTracksCommands[x].out # k

\* C4 (as the claim states it): a run that is no dry run and in which a rule
\* matched at least one track, removing or transforming it, returns a changed
\* plan with a preset
C4_MatchedTrackMarksChanged ==
    (pc = "done" /\ PassOver /\ ~DryRun(inputs)
       /\ \E k \in 1..Len(audioTracks) : FirstMatch(audioTracks[k], transcodeRules.a) >= 0)
    => (response.processFile /\ response.preset.t = "string")

\* ------------------------------------------------------------ the watermark

WatermarkFound == response.infoLog = EntryLog("processed")

Unchanged ==
    /\ pc = "done"
    /\ ~response.processFile
    /\ response.preset = Undefined
    /\ audioTracksCommands = <<>>
    /\ executed = <<>>
    /\ inputTrackIndex = 0

LastStamp == stamped[Len(stamped)]

\* C5: a run with the rule document of the run whose preset the host applied
\* last, on the file that came out of it, finds the watermark and returns an
\* unchanged plan without a preset; the pass over the tracks does not begin
C5_SameRulesUnchanged ==
    (pc \in {"tracks", "done", "threw"} /\ stamped # <<>>
       /\ Prop(inputs, "transcodeRules") = LastStamp.document)
    => (Unchanged /\ WatermarkFound)

\* the second run returned, on a file with a track the rules would act on
C5_Witness ==
    /\ pc = "done"
    /\ stamped # <<>>
    /\ Prop(inputs, "transcodeRules") = LastStamp.document
    /\ WatermarkFound
    /\ \E k \in 1..Len(Prop(Prop(file, "ffProbeData"), "streams").a) :
         /\ StrictEq(Prop(Prop(Prop(file, "ffProbeData"), "streams").a[k], "codec_type"),
                     Str(<<"a", "u", "d", "i", "o">>))
         /\ FirstMatch(Prop(Prop(file, "ffProbeData"), "streams").a[k], transcodeRules.a) >= 0

\* C6 (as the claim states it): whenever the rules of the run differ from the
\* rules of the last run that stamped the marker, the guard does not report
\* the file as processed
C6_DiffersFromLastStamp ==
    (pc \in {"tracks", "done"} /\ transcodeRules.t = "array" /\ stamped # <<>>
       /\ transcodeRules # LastStamp.rules)
    => ~WatermarkFound

StampedBefore == \E x \in DOMAIN stamped : stamped[x].rules = transcodeRules

FileAudioTracks ==
    StreamsOfType(Prop(Prop(file, "ffProbeData"), "streams").a, <<"a", "u", "d", "i", "o">>)

\* C6 (amended): the marker keeps the watermark of every run that stamped it;
\* the guard reports the file as processed exactly when the rules of the run
\* are the rules of one of these runs. With rules that differ from those of
\* every such run, the pass over the audio tracks of the file runs to its end
C6_DiffersFromEveryStamp ==
    (pc \in {"tracks", "done"} /\ transcodeRules.t = "array")
    => /\ WatermarkFound <=> StampedBefore
       /\ (~StampedBefore /\ pc = "done")
            => (audioTracks = FileAudioTracks /\ inputTrackIndex = Len(audioTracks))

\* a stamped file is processed again under rules that never stamped it
C6_Witness ==
    /\ pc = "done"
    /\ stamped # <<>>
    /\ ~StampedBefore
    /\ response.processFile
    /\ executed # <<>>

\* --------------------------------------------------------------- validation

ParsedRules == Prop(inputs, "transcodeRules").value.a

IsRuleList ==
    Prop(inputs, "transcodeRules").parses /\ IsArray(Prop(inputs, "transcodeRules").value)

HasRuleWithError ==
    \E x \in 1..Len(ParsedRules) : RuleError(ParsedRules[x], x - 1).t # "undefined"

\* C7: when the document is no JSON, no list, or has a rule with an error at
\* any place, the run returns an unchanged plan without a preset after the
\* log of the error; no track is looked at
C7_AllOrNothing ==
    (pc # "start" /\ (IsRuleList => HasRuleWithError))
    => /\ Unchanged
       /\ transcodeRules.t = "string"
       /\ response.infoLog = EntryLog("invalid")
       /\ audioTracks = <<>>

\* a list whose first rule is sound and matches a track of the file, and
\* whose second rule has an error
C7_Witness ==
    /\ pc = "done"
    /\ IsRuleList
    /\ Len(ParsedRules) = 2
    /\ RuleError(ParsedRules[1], 0).t = "undefined"
    /\ RuleError(ParsedRules[2], 1).t # "undefined"
    /\ \E k \in 1..Len(FileAudioTracks) :
           trackMatches(FileAudioTracks[k], Prop(ParsedRules[1], "match"))

Accepted == pc # "start" /\ transcodeRules.t = "array"

\* C8 (as the claim states it): every operation of an accepted document
\* carries exactly one of the keys copy and transcode
C8_ExactlyOneKey ==
    Accepted =>
        \A x \in 1..Len(ParsedRules) :
            \A y \in 1..Len(OperationsAt(ParsedRules, x - 1)) :
                HasOwn(OperationsAt(ParsedRules, x - 1)[y], "copy")
                  # HasOwn(OperationsAt(ParsedRules, x - 1)[y], "transcode")

MatchDispositionsOf(rule) == Prop(Prop(rule, "match"), "dispositions")

\* C9 (as the claim states it): the match dispositions of every rule of an
\* accepted document hold boolean values only
C9_BooleanValued ==
    Accepted =>
        \A x \in 1..Len(ParsedRules) :
            HasOwn(Prop(ParsedRules[x], "match"), "dispositions") =>
                \A y \in DOMAIN OwnValues(MatchDispositionsOf(ParsedRules[x])) :
                    TypeOf(OwnValues(MatchDispositionsOf(ParsedRules[x]))[y]) = "boolean"

HasMatchObject(rule) == ~NotAnObject(rule) /\ ~NotAnObject(Prop(rule, "match"))

\* the rule with the match dispositions, when they are an object, emptied
WithoutDispositionValues(rule) ==
    IF HasMatchObject(rule) /\ HasOwn(Prop(rule, "match"), "dispositions")
       /\ ~NotAnObject(MatchDispositionsOf(rule))
    THEN SetProp(rule, "match", SetProp(Prop(rule, "match"), "dispositions", Obj(<<>>)))
    ELSE rule

RulesWithoutDispositionValues ==
    [parses |-> TRUE,
     value |-> Arr([x \in DOMAIN ParsedRules |-> WithoutDispositionValues(ParsedRules[x])])]

\* C9 (amended): a document with a rule whose match dispositions are present
\* and no object is refused; the values inside match dispositions that are an
\* object are not looked at: the document is accepted or refused as the same
\* document with these mappings emptied is
C9_ObjectOnly ==
    (pc # "start" /\ IsRuleList)
    => /\ (\E x \in 1..Len(ParsedRules) :
              /\ HasMatchObject(ParsedRules[x])
              /\ HasOwn(Prop(ParsedRules[x], "match"), "dispositions")
              /\ NotAnObject(MatchDispositionsOf(ParsedRules[x])))
          => transcodeRules.t = "string"
       /\ transcodeRules.t = validateTranscodeRules(RulesWithoutDispositionValues).t

\* an accepted document with a string inside the match dispositions
C9_Witness ==
    /\ Accepted
    /\ \E x \in 1..Len(ParsedRules) :
         /\ HasOwn(Prop(ParsedRules[x], "match"), "dispositions")
         /\ \E y \in DOMAIN OwnValues(MatchDispositionsOf(ParsedRules[x])) :
                TypeOf(OwnValues(MatchDispositionsOf(ParsedRules[x]))[y]) = "string"

\* ------------------------------------------------------- numeric conditions

Holds(c, v) ==
    CASE c.op = <<"<", "=">> -> v <= c.n
      [] c.op = <<">", "=">> -> v >= c.n
      [] c.op = <<"<">> -> v < c.n
      [] c.op = <<">">> -> v > c.n
      [] OTHER -> v = c.n

\* C10: the track passes the channels (the bitrate) field of a match spec
\* exactly when every condition the field lists holds of the value of the
\* track, "<=n" as v <= n, "<n" as v < n, ">=n" as v >= n, ">n" as v > n and
\* "n" as v = n
C10_NumericConditions ==
    call.done =>
        (call.result <=> \A x \in DOMAIN call.conditions : Holds(call.conditions[x], call.value))

\* a call with two conditions that both hold, the first one "<=" at its bound
C10_Witness ==
    /\ call.done
    /\ Len(call.conditions) = 2
    /\ call.conditions[1].op = <<"<", "=">>
    /\ call.conditions[1].n = call.value
    /\ call.conditions[2].op = <<">">>
    /\ Holds(call.conditions[2], call.value)
    /\ call.result

\* ------------------------------------------------------ tests of the matcher

Called(fn, family) == call.done /\ call.fn = fn /\ call.family = family

SameName(a, b) == toLowerCase(a) = toLowerCase(b)

\* the codec test as the rule document states it, the case of letters set
\* aside
CodecPasses(name, codecs) ==
    IF IsArray(codecs) THEN \E x \in DOMAIN codecs.a : SameName(codecs.a[x].s, name)
    ELSE IF codecs.s = <<"*">> THEN TRUE
    ELSE ~SameName(Tail(codecs.s), name)

\* C11 (as the claim states it): the wildcard passes every track, a negated
\* codec passes the tracks of every other codec, a list passes the tracks
\* whose codec it names, whatever the case of the letters on either side
C11_CodecTest ==
    Called("trackMatches", "codecs") =>
        (call.result = CodecPasses(Prop(call.args[1], "codec_name").s,
                                   Prop(call.args[2], "codecs")))

SameValue(a, b) == a.t = b.t /\ a = b

IsLiteral(pattern) == \A x \in DOMAIN pattern : pattern[x] \notin {"(", ")", ".", "\\"}

\* C13 (as the claim states it): without caseSensitive in match.title, a
\* track whose title differs from a pattern of plain letters only in the case
\* of letters does not pass the title test, and the title template gets the
\* capture groups of no match that a case sensitive search does not find
C13_CaseSensitiveByDefault ==
    /\ (Called("trackMatches", "title")
          /\ ~HasOwn(Prop(call.args[2], "title"), "caseSensitive")
          /\ IsLiteral(Prop(Prop(call.args[2], "title"), "pattern").s)
          /\ SameName(TrackTitle(call.args[1]).s, Prop(Prop(call.args[2], "title"), "pattern").s)
          /\ TrackTitle(call.args[1]).s # Prop(Prop(call.args[2], "title"), "pattern").s)
       => ~call.result
    /\ (Called("getNewTrackTitle", "template")
          /\ Truthy(call.args[2])
          /\ ~HasOwn(call.args[2], "caseSensitive")
          /\ ~RegExpTest(Prop(call.args[2], "pattern").s, FALSE, TrackTitle(call.args[1]).s))
       => call.result = getNewTrackTitle(call.args[1], Undefined, call.args[3], call.args[4])

\* ------------------------------------------------ limits of the codecs

\* the track and the transcode of a run of SpecTranscode
TheTrack == audioTracks[1]
TheTranscode == Prop(OperationsAt(transcodeRules.a, 0)[1], "transcode")

\* the pass is over, on a single track that the single transcode served
Transcoded ==
    /\ pc = "done"
    /\ PassOver
    /\ Len(audioTracks) = 1
    /\ Len(executed) = 1
    /\ HasOwn(OperationsAt(transcodeRules.a, 0)[1], "transcode")

\* the name of the codec the output is encoded with
Target ==
    IF Prop(TheTranscode, "codec").s = <<"c", "o", "p", "y">>
    THEN Prop(TheTrack, "codec_name").s
    ELSE Prop(TheTranscode, "codec").s

\* the channel ceiling of a codec of the table, 0 for a codec out of it
ChannelCeiling(codec) ==
    CASE codec = <<"a", "c", "3">> -> 6
      [] codec = <<"m", "p", "3">> -> 2
      [] OTHER -> 0

\* the channel counts of the -ac instructions, in the order pushed
EmittedChannels ==
    LET ac == SelectSeq(audioTracksCommands, LAMBDA c : c.kind = "-ac")
    IN  [x \in DOMAIN ac |-> ac[x].channels]

\* the channels the operation gives: a count of 1 or more
GivesChannels == HasOwn(TheTranscode, "channels") /\ Prop(TheTranscode, "channels").n >= 1

\* C14: when the target codec has a channel ceiling (ac3: 6, mp3: 2), no -ac
\* instruction carries more than the ceiling; the channels asked for, or the
\* channels of the source when none are asked for, being over the ceiling,
\* one -ac instruction with the ceiling is pushed; and channels asked for
\* within the ceiling are pushed as they are.
C14_ChannelCeiling ==
    (Transcoded /\ ChannelCeiling(Target) > 0) =>
       /\ \A x \in DOMAIN EmittedChannels : EmittedChannels[x].n <= ChannelCeiling(Target)
       /\ (GivesChannels /\ Prop(TheTranscode, "channels").n > ChannelCeiling(Target))
             => EmittedChannels = <<Num(ChannelCeiling(Target))>>
       /\ (~HasOwn(TheTranscode, "channels")
           /\ Prop(TheTrack, "channels").n > ChannelCeiling(Target))
             => EmittedChannels = <<Num(ChannelCeiling(Target))>>
       /\ (GivesChannels /\ Prop(TheTranscode, "channels").n <= ChannelCeiling(Target))
             => EmittedChannels = <<Prop(TheTranscode, "channels")>>

\* a source of 8 channels copied to ac3 with no channels asked for: 6 pushed
C14_Witness ==
    /\ Transcoded
    /\ Target = <<"a", "c", "3">>
    /\ ~HasOwn(TheTranscode, "channels")
    /\ Prop(TheTrack, "channels") = Num(8)
    /\ EmittedChannels = <<Num(6)>>

\* the target is AAC, in any letter case
TargetIsAac ==
    \E x \in {"a", "A"}, y \in {"a", "A"}, z \in {"c", "C"} : Target = <<x, y, z>>

\* C15: for a target codec aac in any letter case, no channels asked for and a
\* source of more than 6 channels, one -ac instruction with 8 is pushed, a
\* source of exactly 8 channels included; with channels asked for they are
\* pushed instead, and with a source of 6 channels or fewer and none asked for
\* no -ac instruction is pushed.
C15_AacOverride ==
    (Transcoded /\ TargetIsAac) =>
       /\ (~HasOwn(TheTranscode, "channels") /\ Prop(TheTrack, "channels").n > 6)
             => EmittedChannels = <<Num(8)>>
       /\ GivesChannels => EmittedChannels = <<Prop(TheTranscode, "channels")>>
       /\ (~HasOwn(TheTranscode, "channels") /\ Prop(TheTrack, "channels").n <= 6)
             => EmittedChannels = <<>>

\* a source of exactly 8 channels, target written AAC, no channels asked for
C15_Witness ==
    /\ Transcoded
    /\ Target = <<"A", "A", "C">>
    /\ ~HasOwn(TheTranscode, "channels")
    /\ Prop(TheTrack, "channels") = Num(8)
    /\ EmittedChannels = <<Num(8)>>

\* the bitrate ceiling of a codec of the table, 0 for a codec out of it
BitrateCeiling(codec) ==
    CASE codec = <<"a", "c", "3">> -> 640000
      [] codec = <<"m", "p", "3">> -> 320000
      [] OTHER -> 0

\* the bitrates of the -b instructions, in the order pushed
EmittedBitrates ==
    LET b == SelectSeq(audioTracksCommands, LAMBDA c : c.kind = "-b")
    IN  [x \in DOMAIN b |-> b[x].bitrate]

\* the bitrate the operation gives: 1 bps or more
GivesBitrate == HasOwn(TheTranscode, "bitrate") /\ Prop(TheTranscode, "bitrate").n >= 1

C17_InheritedBitrateClamped ==
    (/\ Transcoded
     /\ ~HasOwn(TheTranscode, "bitrate")
     /\ BitrateCeiling(Target) > 0
     /\ HasOwn(TheTrack, "bit_rate")
     /\ Prop(TheTrack, "bit_rate").n > BitrateCeiling(Target))
       => EmittedBitrates = <<Num(BitrateCeiling(Target))>>

\* --------------------------------------------------- flags and titles

\* the flags of a mapping in insertion order, those of the positions in bare
\* written without a sign, the other true ones after '+', the false ones
\* after '-'
RECURSIVE Signed(_, _, _)
Signed(entries, bare, i) ==
    IF i > Len(entries) THEN <<>>
    ELSE (IF i \in bare THEN <<entries[i].k>>
          ELSE IF entries[i].v = Bool(TRUE) THEN <<"+", entries[i].k>>
          ELSE <<"-", entries[i].k>>)
         \o Signed(entries, bare, i + 1)

TrueFlags(entries) == {i \in DOMAIN entries : entries[i].v = Bool(TRUE)}

\* C18, as claimed: the first flag whose value is true is written bare, every
\* later true flag after '+', every false flag after '-'.
C18_FirstTrueFlagBare ==
    Called("getDispositionFlags", "flags") =>
       LET e == call.args[1].o
       IN  call.result = Signed(e, {i \in TrueFlags(e) : \A j \in TrueFlags(e) : i <= j}, 1)

\* C18, amended: the flags are listed in insertion order; the first flag of
\* the mapping is written bare when its value is true, every other true flag
\* after '+', every false flag after '-'.
C18_FirstFlagBare ==
    Called("getDispositionFlags", "flags") =>
       LET e == call.args[1].o
       IN  call.result = Signed(e, TrueFlags(e) \cap {1}, 1)

\* {comment: false, default: true} gives -comment+default
C18_Witness ==
    /\ Called("getDispositionFlags", "flags")
    /\ call.args[1] = Obj(<<E("comment", Bool(FALSE)), E("default", Bool(TRUE))>>)
    /\ call.result = <<"-", "comment", "+", "default">>

Has(s, ch) == \E p \in DOMAIN s : s[p] = ch

\* C19: the string getNewTrackTitle returns holds no comma and no double
\* quote, whatever the template, the title, the language, the codec name, the
\* channel layout and the captured groups hold.
C19_TitleSanitized ==
    (call.done /\ call.fn = "getNewTrackTitle") =>
       /\ ~Has(call.result, ",")
       /\ ~Has(call.result, "\"")

\* a template with a comma and a double quote of its own and the tag of a
\* title that holds both: the title returned holds their replacements
C19_Witness ==
    /\ call.done
    /\ call.fn = "getNewTrackTitle"
    /\ Has(TrackTitle(call.args[1]).s, ",")
    /\ Has(TrackTitle(call.args[1]).s, "\"")
    /\ Has(Prop(call.args[3], "title").s, ",")
    /\ Has(Prop(call.args[3], "title").s, "{")
    /\ Has(call.result, SingleLow9Quote)
    /\ Has(call.result, DoublePrime)

\* ------------------------------------------------------------- dry run

\* the presets the log reports as the resulting command, in order
ReportedCommands ==
    LET r == SelectSeq(response.infoLog, LAMBDA e : e.msg = "Resulting ffmpeg command :")
    IN  [x \in DOMAIN r |-> r[x].preset]

\* the preset a run that is not dry returns on the file and the rules of
\* this run, once the pass over the audio tracks is over: none when no
\* operation changed the file
PresetOfARealRun ==
    LET st == RunPass(audioTracks, transcodeRules.a, PassStart)
    IN  IF st.req
        THEN PresetOf(file, st.cmds, CopyrightOf(file), Watermark(transcodeRules))
        ELSE Undefined

\* the plugin has returned from a dry run on a valid rule document
DryRunReturned == pc = "done" /\ DryRun(inputs) /\ transcodeRules.t = "array"

\* the pass over the audio tracks was made, to its end
PassMade == Len(audioTracks) > 0 /\ inputTrackIndex = Len(audioTracks)

\* C20, as claimed: a dry run on a valid rule document always returns
\* processFile = false and an empty preset, and its log reports exactly the
\* preset a run that is not dry returns on the same file and rules.
C20_DryRunAlwaysReports ==
    DryRunReturned =>
       /\ ~response.processFile
       /\ response.preset = Str(<<>>)
       /\ ReportedCommands = <<PresetOfARealRun>>

\* C20, amended: a dry run on a valid rule document always returns
\* processFile = false; when the pass over the audio tracks was made, the
\* preset returned is empty and the log reports exactly the preset a run that
\* is not dry returns on the same file and rules; when the plugin returned
\* before the pass (no probe data, watermark found, no audio track), no preset
\* is set and no command is reported.
C20_DryRunReportsPlan ==
    DryRunReturned =>
       /\ ~response.processFile
       /\ IF PassMade
          THEN /\ response.preset = Str(<<>>)
               /\ ReportedCommands = <<PresetOfARealRun>>
          ELSE /\ response.preset = Undefined
               /\ ReportedCommands = <<>>

\* a dry run whose pass asks for a change: the preset reported maps the
\* audio tracks, the preset returned is empty
C20_Witness ==
    /\ DryRunReturned
    /\ PassMade
    /\ requireTranscode
    /\ Len(ReportedCommands) = 1
    /\ ReportedCommands[1].t = "string"
    /\ ReportedCommands[1].audio = audioTracksCommands
    /\ Len(audioTracksCommands) > 0
    /\ response.preset = Str(<<>>)
    /\ ~response.processFile

\* ------------------------------------------------- returns before the pass

\* the file carries probe data with a stream list
HasStreams ==
    /\ Truthy(Prop(file, "ffProbeData"))
    /\ Truthy(Prop(Prop(file, "ffProbeData"), "streams"))

\* the marker text of the file holds the watermark of the rules of the run
Marked ==
    /\ HasStreams
    /\ \E i \in DOMAIN CopyrightOf(file) : CopyrightOf(file)[i] = Watermark(transcodeRules)

Logged(text) == \E i \in DOMAIN response.infoLog : response.infoLog[i].msg = text

\* the run returned on a valid rule document
ReturnedValid == pc = "done" /\ transcodeRules.t = "array"

\* C21: with a valid rule document, a file with no probe data, no stream
\* list or no audio stream is left alone: processFile is false, no preset is
\* set and no rule is executed; the message logged is not the one of a
\* watermark found; and a file that holds the watermark and has no audio
\* stream is reported as already processed.
C21_BenignNoOp ==
    ReturnedValid =>
       /\ (~HasStreams \/ Len(FileAudioTracks) = 0)
             => (/\ ~response.processFile
                 /\ response.preset = Undefined
                 /\ executed = <<>>
                 /\ audioTracksCommands = <<>>)
       /\ ~HasStreams
             => (/\ Logged("Invalid file for processing, FFProbe data missing")
                 /\ ~Logged("Plugin watermark found -> file already processed. Aborting."))
       /\ (HasStreams /\ ~Marked /\ Len(FileAudioTracks) = 0)
             => (/\ Logged("No audio tracks, nothing to do")
                 /\ ~Logged("Plugin watermark found -> file already processed. Aborting."))
       /\ (Marked /\ Len(FileAudioTracks) = 0)
             => (/\ Logged("Plugin watermark found -> file already processed. Aborting.")
                 /\ ~Logged("No audio tracks, nothing to do"))

\* a file with the watermark and no audio stream, reported as processed
C21_Witness ==
    /\ ReturnedValid
    /\ Marked
    /\ Len(FileAudioTracks) = 0
    /\ Logged("Plugin watermark found -> file already processed. Aborting.")
    /\ ~response.processFile

\* ------------------------------------------------- numbering of the tracks

\* the number of stream mappings among the first x commands
MapsUpTo(x) == Cardinality({y \in 1..x : IsMapping(audioTracksCommands[y])})

\* the handled tracks that no rule matches
UnmatchedHandled ==
    {k \in 0..(inputTrackIndex - 1) : FirstMatch(audioTracks[k + 1], transcodeRules.a) < 0}

\* C22: at every point of the pass, the output tracks emitted so far are
\* numbered 0, 1, 2, ... in the order of their stream mappings, one per
\* unmatched track and one per operation executed, none per removed track;
\* every instruction that names an output track names the one of the last
\* stream mapping before it; and the output index is the number of the
\* stream mappings emitted.
C22_OutputIndices ==
    PassBegun =>
       /\ outputTrackIndex = MapsUpTo(Len(audioTracksCommands))
       /\ \A x \in DOMAIN audioTracksCommands :
             audioTracksCommands[x].kind # "-map"
                => audioTracksCommands[x].out = MapsUpTo(x) - 1
       /\ MapsUpTo(Len(audioTracksCommands))
             = Cardinality(UnmatchedHandled) + Len(executed)

\* a pass that removed a track and then gave a disposition to an output
\* track other than the first
C22_Witness ==
    /\ PassOver
    /\ pc = "done"
    /\ \E k \in 1..Len(audioTracks) : IsRemoved(audioTracks[k], transcodeRules.a)
    /\ \E x \in DOMAIN audioTracksCommands :
          /\ audioTracksCommands[x].kind = "-disposition"
          /\ audioTracksCommands[x].out >= 1

\* the stream mappings of a command list, by the input index they name
MappedInputs(cmds) ==
    LET maps == SelectSeq(cmds, IsMapping)
    IN  [x \in DOMAIN maps |-> maps[x].in]

\* C23: the step on the k-th audio track keeps the commands emitted before
\* it, advances the input index by exactly one whatever happens to the track,
\* and maps input stream k once per output track the track is due: never for
\* a removed track, once for an unmatched one, once per operation of its rule
\* otherwise; and the stream mappings emitted so far name the input indices
\* in non-decreasing order.
C23_InputIndices ==
    /\ [][(pc = "tracks" /\ inputTrackIndex < Len(audioTracks))
          => /\ inputTrackIndex' = inputTrackIndex + 1
             /\ Len(audioTracksCommands') >= Len(audioTracksCommands)
             /\ SubSeq(audioTracksCommands', 1, Len(audioTracksCommands))
                  = audioTracksCommands
             /\ MappedInputs(SubSeq(audioTracksCommands', Len(audioTracksCommands) + 1,
                                    Len(audioTracksCommands')))
                  = [y \in 1..OutputsAsked(FirstMatch(audioTracks[inputTrackIndex + 1],
                                                      transcodeRules.a),
                                           transcodeRules.a) |-> inputTrackIndex]]_vars
    /\ [](PassBegun =>
            \A x, y \in DOMAIN MappedInputs(audioTracksCommands) :
                x <= y => MappedInputs(audioTracksCommands)[x]
                            <= MappedInputs(audioTracksCommands)[y])

\* a removed track followed by a track with two operations: input stream 1
\* is mapped twice, as output tracks 0 and 1
C23_Witness ==
    /\ PassOver
    /\ pc = "done"
    /\ Len(audioTracks) = 2
    /\ IsRemoved(audioTracks[1], transcodeRules.a)
    /\ MappedInputs(audioTracksCommands) = <<1, 1>>

\* ------------------------------------------------- titles of the outputs

\* the title the operation asks for, and the titles emitted
AskedTitle == Prop(TheTranscode, "title").s

EmittedTitles ==
    LET t == SelectSeq(audioTracksCommands, LAMBDA c : c.kind = "-metadata title")
    IN  [x \in DOMAIN t |-> t[x].title]

\* a channel count the fancy way: Mono, Stereo or X.1
Fancy(n) ==
    CASE n = 1 -> <<"M", "o", "n", "o">>
      [] n = 2 -> <<"S", "t", "e", "r", "e", "o">>
      [] OTHER -> IntToString(n - 1) \o <<".", "1">>

\* C24: in the title of a transcode operation, the tags of the output
\* channels are replaced by the channel count of the -ac instruction of the
\* operation, and the tag of the output bitrate by the bitrate of its -b
\* instruction.
C24_TitleFromResolved ==
    (Transcoded /\ HasOwn(TheTranscode, "title")) =>
       /\ (Len(EmittedChannels) = 1
           /\ AskedTitle = Tag(<<"o", "_", "c", "h", "a", "n", "n", "e", "l", "s">>))
             => EmittedTitles = <<IntToString(EmittedChannels[1].n)>>
       /\ (Len(EmittedChannels) = 1
           /\ AskedTitle = Tag(<<"o", "_", "c", "h", "a", "n", "n", "e", "l", "s",
                                 "_", "f", "a", "n", "c", "y">>))
             => EmittedTitles = <<Fancy(EmittedChannels[1].n)>>
       /\ (Len(EmittedBitrates) = 1
           /\ AskedTitle = Tag(<<"o", "_", "b", "i", "t", "r", "a", "t", "e">>))
             => EmittedTitles = <<IntToString(EmittedBitrates[1].n)>>

\* the matches of the title pattern of a call of getNewTrackTitle on the
\* title of the track, each the sequence of its groups
MatchesOfCall ==
    matchAll(Prop(call.args[2], "pattern").s,
             ~Truthy(Prop(call.args[2], "caseSensitive")),
             TrackTitle(call.args[1]).s)

\* the title "{1}" is rendered with a pattern that matches the title of the
\* track more than once, with a first group that differs among the matches
\* and holds no character that is replaced later
RepeatedGroup ==
    /\ call.done
    /\ call.fn = "getNewTrackTitle"
    /\ Prop(call.args[3], "title") = Str(<<"{", "1", "}">>)
    /\ call.args[2] # Undefined
    /\ Len(MatchesOfCall) >= 2
    /\ \A m \in DOMAIN MatchesOfCall :
          /\ Len(MatchesOfCall[m]) >= 1
          /\ \A ch \in {",", "\"", "{"} : ~Has(MatchesOfCall[m][1], ch)
    /\ MatchesOfCall[1][1] # MatchesOfCall[Len(MatchesOfCall)][1]

\* C25: when the pattern matches the title several times, the tag {1} ends
\* up replaced by the first group of the last match.
C25_LastMatchWins ==
    RepeatedGroup => call.result = MatchesOfCall[Len(MatchesOfCall)][1]

\* --------------------------------------------- streams that are not audio

\* the run returned a changed plan
ChangedPlan == pc = "done" /\ response.processFile /\ response.preset.t = "string"

FileStreams == Prop(Prop(file, "ffProbeData"), "streams").a

TypeIs(stream, type) == Prop(stream, "codec_type") = Str(type)

\* the codec of the stream is named, and not 'none'
Identifiable(stream) ==
    /\ HasOwn(stream, "codec_name")
    /\ Prop(stream, "codec_name").t = "string"
    /\ Prop(stream, "codec_name").s \notin {<<>>, <<"n", "o", "n", "e">>}

\* the position of stream x of the file among the subtitle streams, from 0
SubtitleRank(x) ==
    Cardinality({y \in 1..(x - 1) :
                    TypeIs(FileStreams[y], <<"s", "u", "b", "t", "i", "t", "l", "e">>)})

\* stream x is a subtitle stream that the preset maps and copies
SubtitlePassed(x) ==
    /\ TypeIs(FileStreams[x], <<"s", "u", "b", "t", "i", "t", "l", "e">>)
    /\ \E c \in DOMAIN response.preset.subtitles :
          /\ response.preset.subtitles[c].kind = "-map -c:s copy"
          /\ response.preset.subtitles[c].in = SubtitleRank(x)

NoSubtitles == response.preset.subtitles = <<[kind |-> "-sn"]>>

\* the streams that are neither audio nor video
OtherStreams ==
    {x \in DOMAIN FileStreams :
        /\ ~TypeIs(FileStreams[x], <<"a", "u", "d", "i", "o">>)
        /\ ~TypeIs(FileStreams[x], <<"v", "i", "d", "e", "o">>)}

SubtitleStreams ==
    {x \in DOMAIN FileStreams : TypeIs(FileStreams[x], <<"s", "u", "b", "t", "i", "t", "l", "e">>)}

\* C26, as claimed: a changed plan copies the video streams, passes every
\* stream that is neither audio nor video and has an identifiable codec,
\* passes none without one, and holds -sn exactly when it passes none.
C26_OtherStreamsPassed ==
    ChangedPlan =>
       /\ response.preset.video = "-map 0:v -c:v copy"
       /\ \A x \in OtherStreams : SubtitlePassed(x) <=> Identifiable(FileStreams[x])
       /\ NoSubtitles <=> \A x \in OtherStreams : ~SubtitlePassed(x)

\* C26, amended: a changed plan copies the video streams, passes every
\* subtitle stream that has an identifiable codec and no other stream that is
\* neither audio nor video, and holds -sn exactly when it passes no subtitle
\* stream; every instruction of that part of the preset is -sn or the mapping
\* of a subtitle stream.
C26_SubtitlesPassed ==
    ChangedPlan =>
       /\ response.preset.video = "-map 0:v -c:v copy"
       /\ \A x \in SubtitleStreams : SubtitlePassed(x) <=> Identifiable(FileStreams[x])
       /\ \A x \in OtherStreams \ SubtitleStreams : ~SubtitlePassed(x)
       /\ NoSubtitles <=> \A x \in SubtitleStreams : ~SubtitlePassed(x)
       /\ \A c \in DOMAIN response.preset.subtitles :
             \/ NoSubtitles
             \/ /\ response.preset.subtitles[c].kind = "-map -c:s copy"
                /\ \E x \in SubtitleStreams :
                      response.preset.subtitles[c].in = SubtitleRank(x)

\* a changed plan on a file with two named subtitles, one subtitle of codec
\* 'none' and an attached font: the two named subtitles only are passed
C26_Witness ==
    /\ ChangedPlan
    /\ Cardinality(OtherStreams) = 4
    /\ Cardinality({x \in OtherStreams : SubtitlePassed(x)}) = 2
    /\ \E x \in OtherStreams :
          Identifiable(FileStreams[x]) /\ x \notin SubtitleStreams /\ ~SubtitlePassed(x)
    /\ \E x \in SubtitleStreams : ~Identifiable(FileStreams[x]) /\ ~SubtitlePassed(x)
    /\ ~NoSubtitles

\* ---------------------------------------------------------- changed plans

\* the pass is made and some audio track of the file has a first matching
\* rule with an operation
OperationsDue ==
    /\ HasStreams
    /\ ~Marked
    /\ \E k \in DOMAIN FileAudioTracks :
          /\ FirstMatch(FileAudioTracks[k], transcodeRules.a) >= 0
          /\ Len(OperationsAt(transcodeRules.a,
                              FirstMatch(FileAudioTracks[k], transcodeRules.a))) > 0

C28_SubtitleOutputIndices ==
    (ChangedPlan /\ ~NoSubtitles) =>
       \A c \in DOMAIN response.preset.subtitles :
          response.preset.subtitles[c].out = c - 1

\* ------------------------------------------------------ accepted documents

\* the validator accepts the document of the run
DocumentAccepted == IsRuleList /\ ~HasRuleWithError

\* C29: under a rule document that the validator accepts, on a file with
\* probe data and audio tracks, the run raises no error: not when it computes
\* the watermark, not when it matches the tracks, not when it builds the
\* commands.
C29_AcceptedRunsReturn ==
    (DocumentAccepted /\ HasStreams /\ Len(FileAudioTracks) > 0) => pc # "threw"

\* ------------------------------------------- outputs of the second plugin

\* the audio outputs that a list of commands of the second plugin emits, in
\* order: the input each maps, and the output index its codec is set for
RECURSIVE AudioOutputs(_, _)
AudioOutputs(cmds, i) ==
    IF i > Len(cmds) THEN <<>>
    ELSE (CASE cmds[i].kind = "-map -c copy" ->
                  <<[in |-> cmds[i].in, out |-> cmds[i].out, copy |-> TRUE]>>
            [] cmds[i].kind = "-map" ->
                  <<[in |-> cmds[i].in, out |-> cmds[i + 1].out, copy |-> FALSE]>>
            [] OTHER -> <<>>)
         \o AudioOutputs(cmds, i + 1)

AddedOutputs == AudioOutputs(audioTracksCommands, 1)

\* the tracks the pass has been over
TracksPassed == inputTrackIndex + 1

\* how many of them are in a codec to convert
ConvertedPassed ==
    Cardinality({x \in 1..TracksPassed : IsToConvert(audioTracks[x])})

\* C30: in the second plugin, the audio outputs emitted so far carry the
\* output indices 0..K-1 in order, no gap, no repeat; K is the number of
\* tracks passed when overwriteTrack is true, and that number plus the
\* number of converted tracks when it is false; then the transcoded version
\* of a converted track comes right after the copy of its original, and both
\* map the same input.
C30_AddedOutputIndices ==
    pc \in {"adding", "added"} =>
        /\ Len(AddedOutputs) = IF overwriteTrack THEN TracksPassed
                               ELSE TracksPassed + ConvertedPassed
        /\ \A x \in DOMAIN AddedOutputs : AddedOutputs[x].out = x - 1
        /\ \A x \in DOMAIN AddedOutputs :
               /\ x > 1 => AddedOutputs[x - 1].in <= AddedOutputs[x].in
               /\ AddedOutputs[x].in < TracksPassed
        /\ \A t \in 1..TracksPassed :
               \E x \in DOMAIN AddedOutputs :
                   /\ AddedOutputs[x].in = t - 1
                   /\ IF ~IsToConvert(audioTracks[t]) THEN AddedOutputs[x].copy
                      ELSE IF overwriteTrack THEN ~AddedOutputs[x].copy
                      ELSE /\ AddedOutputs[x].copy
                           /\ x < Len(AddedOutputs)
                           /\ ~AddedOutputs[x + 1].copy
                           /\ AddedOutputs[x + 1].in = t - 1

\* a run has passed three tracks, kept the originals and added the
\* transcoded versions of two of them
C30_Witness ==
    /\ pc = "added"
    /\ ~overwriteTrack
    /\ TracksPassed = 3
    /\ ConvertedPassed = 2
    /\ Len(AddedOutputs) = 5
    /\ response.processFile

====
